---- MODULE Spec2Model ----
(***************************************************************************)
(* GDL-90 encoder of xp2gdl90 (src/src/gdl90_encoder.cpp) as a state       *)
(* machine: a caller constructs a PositionData, or picks heartbeat         *)
(* arguments or a raw byte sequence, and calls the encoder; the results    *)
(* of the calls are the state.  Bytes are integers 0..255, byte vectors    *)
(* are sequences, C++ index i is TLA+ index i+1.                           *)
(***************************************************************************)
EXTENDS Integers, Sequences, FiniteSets, TLC

VARIABLES op, overflow, data, ownship, traffic, hbArgs, heartbeat, raw, escaped, crc,
          arg, code,
          clock, tmStorage, tmBuf, pc, call, now, tmRead, result,
          config_, last_error_, disk, cfgCall,
          bcast, kernel, udpCall,
          g_state, field_values, registered, pluginCall, pluginLog,
          enable_traffic, broadcast_enabled, udp_socket, traffic_targets, loop_statics, xplane, loopCall

(* The single caller's results *)
callerVars == <<op, overflow, data, ownship, traffic, hbArgs, heartbeat, raw, escaped, crc,
                arg, code>>

(* The clock, the C library's struct tm, and the threads calling the encoder *)
threadVars == <<clock, tmStorage, tmBuf, pc, call, now, tmRead, result>>

(* The configuration manager, its file, and the last operation on them *)
configVars == <<config_, last_error_, disk, cfgCall>>

(* The broadcaster, the sockets of the process, and the last call of the broadcaster *)
udpVars == <<bcast, kernel, udpCall>>

(* The plugin state, the fields of the settings window, whether X-Plane holds the flight loop callback, the last event and what the events so far amount to *)
pluginVars == <<g_state, field_values, registered, pluginCall, pluginLog>>

(* The legacy plugin of xp2gdl90.cpp: its switches, its socket, its traffic targets, the statics of its flight loop, what X-Plane holds for it, and its last event *)
trafficVars == <<enable_traffic, broadcast_enabled, udp_socket, traffic_targets, loop_statics, xplane, loopCall>>

vars == <<callerVars, threadVars, configVars, udpVars, pluginVars, trafficVars>>

(* What the operations of one component leave alone: the other components *)
nonCallerVars == <<threadVars, configVars, udpVars, pluginVars, trafficVars>>

nonThreadVars == <<callerVars, configVars, udpVars, pluginVars, trafficVars>>

nonConfigVars == <<callerVars, threadVars, udpVars, pluginVars, trafficVars>>

nonUdpVars == <<callerVars, threadVars, configVars, pluginVars, trafficVars>>

nonPluginVars == <<callerVars, threadVars, configVars, udpVars, trafficVars>>

nonTrafficVars == <<callerVars, threadVars, configVars, udpVars, pluginVars>>

----------------------------------------------------------------------------
(* Machine arithmetic: the C++ operators on non-negative operands.         *)

RECURSIVE BitXor(_, _)
BitXor(a, b) ==
    IF a = 0 THEN b
    ELSE IF b = 0 THEN a
    ELSE ((a + b) % 2) + 2 * BitXor(a \div 2, b \div 2)

RECURSIVE BitAnd(_, _)
BitAnd(a, b) ==
    IF a = 0 \/ b = 0 THEN 0
    ELSE ((a % 2) * (b % 2)) + 2 * BitAnd(a \div 2, b \div 2)

RECURSIVE BitOr(_, _)
BitOr(a, b) ==
    IF a = 0 THEN b
    ELSE IF b = 0 THEN a
    ELSE (IF a % 2 = 1 \/ b % 2 = 1 THEN 1 ELSE 0) + 2 * BitOr(a \div 2, b \div 2)

RECURSIVE Pow2(_)
Pow2(n) == IF n = 0 THEN 1 ELSE 2 * Pow2(n - 1)

Shl(a, n) == a * Pow2(n)

Shr(a, n) == a \div Pow2(n)

(* C++ integer division by a positive divisor: the quotient is rounded     *)
(* toward zero, where \div rounds it down.                                 *)
CDiv(a, b) ==
    IF a >= 0 \/ a % b = 0 THEN a \div b ELSE (a \div b) + 1

----------------------------------------------------------------------------
(* Protocol constants, gdl90_encoder.h *)

MSG_ID_HEARTBEAT == 0

MSG_ID_OWNSHIP_REPORT == 10

MSG_ID_TRAFFIC_REPORT == 20

VVELOCITY_INVALID == 2048

INT16_MIN == -32768

INT32_MAX == 2147483647

INT32_MIN == -2147483647 - 1

----------------------------------------------------------------------------
(* CRC-16-CCITT lookup table, copied entry by entry from the source. *)
crc16_table_ ==
    <<
       0, 4129, 8258, 12387, 16516, 20645, 24774, 28903,
       33032, 37161, 41290, 45419, 49548, 53677, 57806, 61935,
       4657, 528, 12915, 8786, 21173, 17044, 29431, 25302,
       37689, 33560, 45947, 41818, 54205, 50076, 62463, 58334,
       9314, 13379, 1056, 5121, 25830, 29895, 17572, 21637,
       42346, 46411, 34088, 38153, 58862, 62927, 50604, 54669,
       13907, 9842, 5649, 1584, 30423, 26358, 22165, 18100,
       46939, 42874, 38681, 34616, 63455, 59390, 55197, 51132,
       18628, 22757, 26758, 30887, 2112, 6241, 10242, 14371,
       51660, 55789, 59790, 63919, 35144, 39273, 43274, 47403,
       23285, 19156, 31415, 27286, 6769, 2640, 14899, 10770,
       56317, 52188, 64447, 60318, 39801, 35672, 47931, 43802,
       27814, 31879, 19684, 23749, 11298, 15363, 3168, 7233,
       60846, 64911, 52716, 56781, 44330, 48395, 36200, 40265,
       32407, 28342, 24277, 20212, 15891, 11826, 7761, 3696,
       65439, 61374, 57309, 53244, 48923, 44858, 40793, 36728,
       37256, 33193, 45514, 41451, 53516, 49453, 61774, 57711,
       4224, 161, 12482, 8419, 20484, 16421, 28742, 24679,
       33721, 37784, 41979, 46042, 49981, 54044, 58239, 62302,
       689, 4752, 8947, 13010, 16949, 21012, 25207, 29270,
       46570, 42443, 38312, 34185, 62830, 58703, 54572, 50445,
       13538, 9411, 5280, 1153, 29798, 25671, 21540, 17413,
       42971, 47098, 34713, 38840, 59231, 63358, 50973, 55100,
       9939, 14066, 1681, 5808, 26199, 30326, 17941, 22068,
       55628, 51565, 63758, 59695, 39368, 35305, 47498, 43435,
       22596, 18533, 30726, 26663, 6336, 2273, 14466, 10403,
       52093, 56156, 60223, 64286, 35833, 39896, 43963, 48026,
       19061, 23124, 27191, 31254, 2801, 6864, 10931, 14994,
       64814, 60687, 56684, 52557, 48554, 44427, 40424, 36297,
       31782, 27655, 23652, 19525, 15522, 11395, 7392, 3265,
       61215, 65342, 53085, 57212, 44955, 49082, 36825, 40952,
       28183, 32310, 20053, 24180, 11923, 16050, 3793, 7920
    >>

(* calculateCRC: crc = crc16_table_[crc >> 8] ^ (crc << 8) ^ byte for each *)
(* byte, the right-hand side computed in int and truncated to uint16_t on  *)
(* assignment.  loop[<<crc, i>>] is the loop about to read data[i].        *)
(* Mutation: the table indexed by the low byte of the CRC *)
crcStep_lowIndex(crcIn, byte) ==
    BitXor(BitXor(crc16_table_[BitAnd(crcIn, 255) + 1], Shl(crcIn, 8)), byte) % 65536

crcStep(crcIn, byte) ==
    BitXor(BitXor(crc16_table_[Shr(crcIn, 8) + 1], Shl(crcIn, 8)), byte) % 65536

calculateCRC(bytes) ==
    LET loop[st \in Nat \X Nat] ==
            IF st[2] > Len(bytes) THEN st[1]
            ELSE loop[<<crcStep(st[1], bytes[st[2]]), st[2] + 1>>]
    IN  loop[<<0, 1>>]

(* escapeMessage: 0x7D and 0x7E become 0x7D, byte ^ 0x20; every other byte *)
(* is pushed as it is.  loop[<<escaped, i>>] is the loop about to read     *)
(* data[i].                                                                *)
(* Mutation: only the flag byte is escaped *)
escapeByte_only7E(byte) ==
    IF byte = 126
        THEN <<125, BitXor(byte, 32)>>
        ELSE <<byte>>

(* Mutation: the escaped byte is XORed with 0x02 *)
escapeByte_wrongXor(byte) ==
    IF byte = 125 \/ byte = 126
        THEN <<125, BitXor(byte, 2)>>
        ELSE <<byte>>

escapeByte(byte) ==
    IF byte = 125 \/ byte = 126
        THEN <<125, BitXor(byte, 32)>>
        ELSE <<byte>>

escapeMessage(bytes) ==
    LET loop[st \in Seq(Nat) \X Nat] ==
            IF st[2] > Len(bytes) THEN st[1]
            ELSE loop[<<st[1] \o escapeByte(bytes[st[2]]), st[2] + 1>>]
    IN  loop[<<<<>>, 1>>]

(* Mutation: the CRC appended high byte first *)
prepareMessage_crcMsbFirst(payload) ==
    LET c == calculateCRC(payload)
        msg_with_crc == payload \o <<BitAnd(Shr(c, 8), 255), BitAnd(c, 255)>>
    IN  <<126>> \o escapeMessage(msg_with_crc) \o <<126>>

(* prepareMessage: payload, CRC (LSB first), escaped, between two flags *)
prepareMessage(payload) ==
    LET c == calculateCRC(payload)
        msg_with_crc == payload \o <<BitAnd(c, 255), BitAnd(Shr(c, 8), 255)>>
    IN  <<126>> \o escapeMessage(msg_with_crc) \o <<126>>

----------------------------------------------------------------------------
(* Scalar encoders.  A coordinate is held in whole millidegrees: for every *)
(* millidegree value m in -180000..180000 the C++ expression               *)
(* static_cast<int32_t>((m/1000.0) * (0x800000 / 180.0)) equals            *)
(* m * 2^23 / 180000 = m * 2^18 / 5625 rounded toward zero (the double     *)
(* constant is rounded up, so exact multiples are not undershot).  The     *)
(* product is split at 5625 to stay inside 32-bit integers.                *)

Min(a, b) == IF b < a THEN b ELSE a

Max(a, b) == IF a < b THEN b ELSE a

ScaleCoordinate(mdeg) ==
    LET m == IF mdeg < 0 THEN -mdeg ELSE mdeg
        v == (m \div 5625) * 262144 + ((m % 5625) * 262144) \div 5625
    IN  IF mdeg < 0 THEN -v ELSE v

(* Mutation: the latitude is scaled without being clamped *)
encodeLatitude_noClamp(latitude) ==
    LET value == ScaleCoordinate(latitude)
    IN  IF value < 0 THEN BitAnd(16777216 + value, 16777215) ELSE value

encodeLatitude(latitude) ==
    LET clamped == Max(-90000, Min(90000, latitude))
        value == ScaleCoordinate(clamped)
    IN  IF value < 0 THEN BitAnd(16777216 + value, 16777215) ELSE value

encodeLongitude(longitude) ==
    LET clamped == Max(-180000, Min(180000, longitude))
        value == ScaleCoordinate(clamped)
    IN  IF value < 0 THEN BitAnd(16777216 + value, 16777215) ELSE value

(* The outcomes of a signed 32-bit overflow, which is undefined behaviour: *)
(* the sum wraps modulo 2^32, or it is carried on in a wider register.     *)
SignedOverflowOutcomes == {"wrap", "wide"}

(* encodeAltitude: (altitude + 1000) / 25 in int32_t, then clamped.  The   *)
(* addition overflows for altitude > INT32_MAX - 1000; ub names the        *)
(* outcome of the overflow and is not looked at otherwise.                 *)
encodeAltitude(altitude, ub) ==
    LET encoded ==
            IF altitude <= INT32_MAX - 1000
                THEN CDiv(altitude + 1000, 25)
            ELSE IF ub = "wrap"
                THEN CDiv(INT32_MIN + ((altitude - (INT32_MAX - 1000)) - 1), 25)
            ELSE CDiv(altitude, 25) + 40
    IN  IF encoded < 0 THEN 0
        ELSE IF encoded > 4094 THEN 4094
        ELSE encoded

(* Mutation: the sentinel is not looked for *)
encodeVerticalVelocity_noSentinel(vv_fpm) ==
    IF vv_fpm > 32576 THEN 510
    ELSE IF vv_fpm < -32576 THEN 3586
    ELSE LET value == CDiv(vv_fpm, 64)
         IN  IF value < 0 THEN BitAnd(4096 + value, 4095) ELSE value

(* Mutation: the quotient rounded down instead of toward zero *)
encodeVerticalVelocity_floorDiv(vv_fpm) ==
    IF vv_fpm = INT16_MIN THEN VVELOCITY_INVALID
    ELSE IF vv_fpm > 32576 THEN 510
    ELSE IF vv_fpm < -32576 THEN 3586
    ELSE LET value == vv_fpm \div 64
         IN  IF value < 0 THEN BitAnd(4096 + value, 4095) ELSE value

(* Mutation: the two saturation codes exchanged *)
encodeVerticalVelocity_clampSwapped(vv_fpm) ==
    IF vv_fpm = INT16_MIN THEN VVELOCITY_INVALID
    ELSE IF vv_fpm > 32576 THEN 3586
    ELSE IF vv_fpm < -32576 THEN 510
    ELSE LET value == CDiv(vv_fpm, 64)
         IN  IF value < 0 THEN BitAnd(4096 + value, 4095) ELSE value

(* Mutation: no saturation before the division *)
encodeVerticalVelocity_noClamp(vv_fpm) ==
    IF vv_fpm = INT16_MIN THEN VVELOCITY_INVALID
    ELSE LET value == CDiv(vv_fpm, 64)
         IN  IF value < 0 THEN BitAnd(4096 + value, 4095) ELSE value

encodeVerticalVelocity(vv_fpm) ==
    IF vv_fpm = INT16_MIN THEN VVELOCITY_INVALID
    ELSE IF vv_fpm > 32576 THEN 510
    ELSE IF vv_fpm < -32576 THEN 3586
    ELSE LET value == CDiv(vv_fpm, 64)
         IN  IF value < 0 THEN BitAnd(4096 + value, 4095) ELSE value

(* Mutation: the track is scaled to 255 steps a turn *)
encodeTrack_scale255(track) == CDiv((track % 360) * 255, 360) % 256

encodeTrack(track) == CDiv((track % 360) * 256, 360) % 256

(* Mutation: the three bytes least significant first *)
pack24bit_littleEndian(value) ==
    <<BitAnd(value, 255), BitAnd(Shr(value, 8), 255), BitAnd(Shr(value, 16), 255)>>

pack24bit(value) ==
    <<BitAnd(Shr(value, 16), 255), BitAnd(Shr(value, 8), 255), BitAnd(value, 255)>>

(* Mutation: the call sign is not padded *)
callsignBytes_noPad(callsign) == SubSeq(callsign, 1, Min(Len(callsign), 8))

(* Mutation: the call sign is padded with NUL *)
callsignBytes_padZero(callsign) ==
    LET sub == SubSeq(callsign, 1, Min(Len(callsign), 8))
    IN  sub \o [i \in 1..(8 - Len(sub)) |-> 0]

(* Call sign: substr(0, 8), then resize(8, ' ') *)
callsignBytes(callsign) ==
    LET sub == SubSeq(callsign, 1, Min(Len(callsign), 8))
    IN  sub \o [i \in 1..(8 - Len(sub)) |-> 32]

(* Mutation: the horizontal velocity is packed without the clamp to 0xFFE *)
positionPayload_noHClamp(msg_id, d, ub) ==
    LET st == BitOr(Shl(BitAnd(d.alert_status, 15), 4), BitAnd(d.address_type, 15))
        alt == encodeAltitude(d.altitude, ub)
        misc == BitOr(BitOr(Shl(IF d.airborne THEN 1 ELSE 0, 3), Shl(0, 2)),
                      BitAnd(d.track_type, 3))
        h_vel == d.h_velocity
        v_vel == encodeVerticalVelocity(d.v_velocity)
    IN  <<msg_id, st>>
        \o pack24bit(d.icao_address)
        \o pack24bit(encodeLatitude(d.latitude))
        \o pack24bit(encodeLongitude(d.longitude))
        \o <<BitAnd(Shr(alt, 4), 255),
             BitOr(Shl(BitAnd(alt, 15), 4), BitAnd(misc, 15)) % 256,
             BitOr(Shl(BitAnd(d.nic, 15), 4), BitAnd(d.nacp, 15)) % 256,
             BitAnd(Shr(h_vel, 4), 255),
             BitOr(Shl(BitAnd(h_vel, 15), 4), BitAnd(Shr(v_vel, 8), 15)) % 256,
             BitAnd(v_vel, 255),
             encodeTrack(d.track),
             d.emitter_category>>
        \o callsignBytes(d.callsign)
        \o <<Shl(BitAnd(d.emergency_code, 15), 4) % 256>>

(* Mutation: the airborne flag lands in the extrapolated bit *)
positionPayload_airborneBit2(msg_id, d, ub) ==
    LET st == BitOr(Shl(BitAnd(d.alert_status, 15), 4), BitAnd(d.address_type, 15))
        alt == encodeAltitude(d.altitude, ub)
        misc == BitOr(BitOr(Shl(0, 3), Shl(IF d.airborne THEN 1 ELSE 0, 2)),
                      BitAnd(d.track_type, 3))
        h_vel == Min(d.h_velocity, 4094)
        v_vel == encodeVerticalVelocity(d.v_velocity)
    IN  <<msg_id, st>>
        \o pack24bit(d.icao_address)
        \o pack24bit(encodeLatitude(d.latitude))
        \o pack24bit(encodeLongitude(d.longitude))
        \o <<BitAnd(Shr(alt, 4), 255),
             BitOr(Shl(BitAnd(alt, 15), 4), BitAnd(misc, 15)) % 256,
             BitOr(Shl(BitAnd(d.nic, 15), 4), BitAnd(d.nacp, 15)) % 256,
             BitAnd(Shr(h_vel, 4), 255),
             BitOr(Shl(BitAnd(h_vel, 15), 4), BitAnd(Shr(v_vel, 8), 15)) % 256,
             BitAnd(v_vel, 255),
             encodeTrack(d.track),
             d.emitter_category>>
        \o callsignBytes(d.callsign)
        \o <<Shl(BitAnd(d.emergency_code, 15), 4) % 256>>

(* The unframed payload that createPositionReport hands to prepareMessage *)
positionPayload(msg_id, d, ub) ==
    LET st == BitOr(Shl(BitAnd(d.alert_status, 15), 4), BitAnd(d.address_type, 15))
        alt == encodeAltitude(d.altitude, ub)
        misc == BitOr(BitOr(Shl(IF d.airborne THEN 1 ELSE 0, 3), Shl(0, 2)),
                      BitAnd(d.track_type, 3))
        h_vel == Min(d.h_velocity, 4094)
        v_vel == encodeVerticalVelocity(d.v_velocity)
    IN  <<msg_id, st>>
        \o pack24bit(d.icao_address)
        \o pack24bit(encodeLatitude(d.latitude))
        \o pack24bit(encodeLongitude(d.longitude))
        \o <<BitAnd(Shr(alt, 4), 255),
             BitOr(Shl(BitAnd(alt, 15), 4), BitAnd(misc, 15)) % 256,
             BitOr(Shl(BitAnd(d.nic, 15), 4), BitAnd(d.nacp, 15)) % 256,
             BitAnd(Shr(h_vel, 4), 255),
             BitOr(Shl(BitAnd(h_vel, 15), 4), BitAnd(Shr(v_vel, 8), 15)) % 256,
             BitAnd(v_vel, 255),
             encodeTrack(d.track),
             d.emitter_category>>
        \o callsignBytes(d.callsign)
        \o <<Shl(BitAnd(d.emergency_code, 15), 4) % 256>>

createPositionReport(msg_id, d, ub) == prepareMessage(positionPayload(msg_id, d, ub))

createOwnshipReport(d, ub) == createPositionReport(MSG_ID_OWNSHIP_REPORT, d, ub)

(* Mutation: the traffic report built with the ownship message id *)
createTrafficReport_ownshipId(d, ub) == createPositionReport(MSG_ID_OWNSHIP_REPORT, d, ub)

createTrafficReport(d, ub) == createPositionReport(MSG_ID_TRAFFIC_REPORT, d, ub)

(* Mutation: the GPS-valid flag set one bit too low *)
heartbeatPayload_gpsBit6(gps_valid, utc_ok, timestamp) ==
    LET status1 == IF gps_valid THEN BitOr(1, 64) ELSE 1
        s2a == IF utc_ok THEN BitOr(0, 1) ELSE 0
        status2 == IF BitAnd(timestamp, 65536) # 0 THEN BitOr(s2a, 128) ELSE s2a
    IN  <<MSG_ID_HEARTBEAT, status1, status2,
          BitAnd(timestamp, 255), BitAnd(Shr(timestamp, 8), 255), 0, 0>>

(* Mutation: bit 16 of the timestamp is not carried into status byte 2 *)
heartbeatPayload_noBit16(gps_valid, utc_ok, timestamp) ==
    LET status1 == IF gps_valid THEN BitOr(1, 128) ELSE 1
        status2 == IF utc_ok THEN BitOr(0, 1) ELSE 0
    IN  <<MSG_ID_HEARTBEAT, status1, status2,
          BitAnd(timestamp, 255), BitAnd(Shr(timestamp, 8), 255), 0, 0>>

(* The unframed payload of createHeartbeat; timestamp is what getUTCTime   *)
(* returned for the call.                                                  *)
heartbeatPayload(gps_valid, utc_ok, timestamp) ==
    LET status1 == IF gps_valid THEN BitOr(1, 128) ELSE 1
        s2a == IF utc_ok THEN BitOr(0, 1) ELSE 0
        status2 == IF BitAnd(timestamp, 65536) # 0 THEN BitOr(s2a, 128) ELSE s2a
    IN  <<MSG_ID_HEARTBEAT, status1, status2,
          BitAnd(timestamp, 255), BitAnd(Shr(timestamp, 8), 255), 0, 0>>

createHeartbeat(gps_valid, utc_ok, timestamp) ==
    prepareMessage(heartbeatPayload(gps_valid, utc_ok, timestamp))

(* getUTCTime: seconds since UTC midnight from the fields of gmtime *)
getUTCTime(tm) == (tm.tm_hour * 3600) + (tm.tm_min * 60) + tm.tm_sec

----------------------------------------------------------------------------
(* Inputs of the calls *)

MaxRawLen == 3

MaxCallsignLen == 9

RawBytes == {0, 32, 93, 94, 125, 126, 255}

RawInputs ==
    UNION {[1..n -> RawBytes] : n \in 0..MaxRawLen} \cup {<<b>> : b \in 0..255}

(* "CALLSIGN9XYZ" *)
CallsignSource == <<67, 65, 76, 76, 83, 73, 71, 78, 57, 88, 89, 90>>

(* "N12345" *)
CallsignN12345 == <<78, 49, 50, 51, 52, 53>>

(* "AB" 0x7E 0x7D "CD" *)
CallsignEscapes == <<65, 66, 126, 125, 67, 68>>

Callsigns ==
    {SubSeq(CallsignSource, 1, Min(n, Len(CallsignSource))) : n \in 0..MaxCallsignLen}
        \cup {CallsignN12345, CallsignEscapes,
              <<126, 126, 126, 126, 126, 126, 126, 126, 126>>}

(* PositionData{} : every field zero, the callsign empty *)
ZeroPosition ==
    [latitude |-> 0, longitude |-> 0, altitude |-> 0, h_velocity |-> 0,
     v_velocity |-> 0, track |-> 0, track_type |-> 0, airborne |-> FALSE,
     nic |-> 0, nacp |-> 0, icao_address |-> 0, callsign |-> <<>>,
     emitter_category |-> 0, address_type |-> 0, alert_status |-> 0,
     emergency_code |-> 0]

(* latitude 37.524, longitude -122.063, altitude 1000, 150 kt, track 90,   *)
(* airborne, ICAO 0xABCDEF, "N12345", LIGHT; the other fields zero         *)
ScenarioPosition ==
    [ZeroPosition EXCEPT !.latitude = 37524, !.longitude = -122063,
        !.altitude = 1000, !.h_velocity = 150, !.v_velocity = 0, !.track = 90,
        !.airborne = TRUE, !.icao_address = 11259375,
        !.callsign = CallsignN12345, !.emitter_category = 1]

(* tests/test_gdl90_encoder.cpp, "Ownship report encodes fields and clamps values" *)
ClampPosition ==
    [latitude |-> 100000, longitude |-> -200000, altitude |-> 1000000,
     h_velocity |-> 65535, v_velocity |-> INT16_MIN, track |-> 721,
     track_type |-> 1, airborne |-> TRUE, nic |-> 9, nacp |-> 8,
     icao_address |-> 43969, callsign |-> SubSeq(CallsignSource, 1, 9),
     emitter_category |-> 5, address_type |-> 0, alert_status |-> 2,
     emergency_code |-> 3]

(* tests/test_gdl90_encoder.cpp, "Traffic report escapes special bytes" *)
EscapePosition ==
    [latitude |-> -45000, longitude |-> 120000, altitude |-> -5000,
     h_velocity |-> 100, v_velocity |-> -32000, track |-> 180,
     track_type |-> 2, airborne |-> FALSE, nic |-> 1, nacp |-> 2,
     icao_address |-> 48879, callsign |-> CallsignEscapes,
     emitter_category |-> 1, address_type |-> 2, alert_status |-> 0,
     emergency_code |-> 0]

BasePositions == {ScenarioPosition, ClampPosition, EscapePosition}

FieldValues ==
    [latitude |-> {-91000, -90000, -45000, -1, 0, 1, 37524, 90000, 91000, 100000},
     longitude |-> {-200000, -181000, -180000, -122063, 0, 120000, 180000, 181000},
     altitude |-> {INT32_MIN, -100000, -5000, -1025, -1001, -1000, -999, -976,
                   -975, -1, 0, 24, 25, 1000, 101324, 101325, 101349, 101350,
                   101351, 1000000, INT32_MAX - 1000, INT32_MAX - 999, INT32_MAX},
     h_velocity |-> {0, 150, 4093, 4094, 4095, 65535},
     v_velocity |-> {INT16_MIN, -32767, -32577, -32576, -32575, -32000, -128,
                     -65, -64, -63, -1, 0, 1, 63, 64, 65, 127, 128, 8064,
                     32575, 32576, 32577, 32767},
     track |-> {0, 1, 90, 180, 359, 360, 361, 721, 65535},
     track_type |-> 0..3,
     airborne |-> BOOLEAN,
     nic |-> {0, 1, 9, 11, 15, 16, 255},
     nacp |-> {0, 1, 9, 11, 15, 16, 255},
     icao_address |-> {0, 43969, 48879, 11259375, 8289662, 28036591, INT32_MAX},
     callsign |-> Callsigns,
     emitter_category |-> {0, 1, 5, 15, 125, 126, 255},
     address_type |-> {0, 2, 5, 16, 255},
     alert_status |-> {0, 1, 2, 15, 16, 255},
     emergency_code |-> {0, 3, 15, 16, 255}]

(* The scenario with its four unlisted fields filled in *)
ScenarioCompletions ==
    {[ScenarioPosition EXCEPT !.track_type = tt, !.nic = n, !.nacp = a,
                              !.emergency_code = e] :
        tt \in 0..3, n \in {0, 7, 9, 11}, a \in {0, 9, 11, 13}, e \in {0, 3}}

(* Fields that share a byte, or neighbouring bytes, varied together *)
VelocityPairs ==
    {[ScenarioPosition EXCEPT !.h_velocity = h, !.v_velocity = v] :
        h \in {0, 4094, 4095, 65535}, v \in {INT16_MIN, -32577, -1, 0, 64, 32577}}

AltitudeMiscPairs ==
    {[ScenarioPosition EXCEPT !.altitude = a, !.airborne = b, !.track_type = tt] :
        a \in {-1000, -975, -600, 1000, 101350}, b \in BOOLEAN, tt \in 0..3}

StatusPairs ==
    {[ScenarioPosition EXCEPT !.alert_status = st, !.address_type = t] :
        st \in {0, 15, 255}, t \in {0, 5, 255}}

PositionInputs ==
    {[b EXCEPT ![f] = v] : <<b, f, v>> \in
        UNION {{<<b, f, v>> : v \in FieldValues[f]} :
                  <<b, f>> \in BasePositions \X DOMAIN FieldValues}}
        \cup ScenarioCompletions \cup VelocityPairs \cup AltitudeMiscPairs
        \cup StatusPairs \cup {ZeroPosition}

(* Arguments of the direct calls of the scalar encoders: Window values on *)
(* each side of every threshold of the code.                              *)
Window == 130

AltitudeInputs ==
    FieldValues.altitude
        \cup {INT32_MIN + k : k \in 0..Window}
        \cup ((-1000 - Window)..(-1000 + Window))
        \cup ((101350 - Window)..(101350 + Window))
        \cup {INT32_MAX - k : k \in 0..(1000 + Window)}

VerticalVelocityInputs ==
    FieldValues.v_velocity
        \cup (INT16_MIN..(-32576 + Window))
        \cup ((-Window)..Window)
        \cup ((32576 - Window)..32767)

(* What gmtime returns for the clock: the fields of struct tm that        *)
(* getUTCTime reads.  18:12:15 is second 65535 of the day.                *)
(* Coordinates in millidegrees: around zero and both limits, and far out *)
LatitudeInputs ==
    FieldValues.latitude
        \cup ((-90000 - Window)..(-90000 + Window))
        \cup ((-Window)..Window)
        \cup ((90000 - Window)..(90000 + Window))
        \cup {-1000000, -180000, 180000, 1000000}

LongitudeInputs ==
    FieldValues.longitude
        \cup ((-180000 - Window)..(-180000 + Window))
        \cup ((-Window)..Window)
        \cup ((180000 - Window)..(180000 + Window))
        \cup {-1000000, -90000, 90000, 1000000}

(* Tracks: two turns of the compass and the top of the uint16_t range *)
TrackInputs ==
    FieldValues.track \cup (0..(720 + Window)) \cup {65535 - k : k \in 0..Window}

ClockReadings ==
    {[tm_hour |-> h, tm_min |-> m, tm_sec |-> s] :
        h \in {0, 1, 18, 23}, m \in {0, 1, 12, 59}, s \in {0, 1, 15, 16, 59}}

Midnight == [tm_hour |-> 0, tm_min |-> 0, tm_sec |-> 0]

----------------------------------------------------------------------------
(* Threads that call the encoder at the same time.  getUTCTime calls       *)
(* std::time and then std::gmtime, which fills a struct tm owned by the C  *)
(* library and returns a pointer to it; the three fields are read through  *)
(* that pointer afterwards.  tmStorage is where the C library of the build *)
(* keeps that struct: one static object for the process, or one object a   *)
(* thread.                                                                 *)
NumThreads == 2

Threads == 1..NumThreads

GmtimeStorages == {"static", "thread_local"}

TmFields == {"tm_hour", "tm_min", "tm_sec"}

(* No field of the struct tm read yet *)
NoneRead == [tm_hour |-> -1, tm_min |-> -1, tm_sec |-> -1]

NoCall == [kind |-> "none", gps_valid |-> FALSE, utc_ok |-> FALSE, data |-> ZeroPosition]

(* std::gmtime: the time of day of a time_t *)
gmtime(t) ==
    [tm_hour |-> (t % 86400) \div 3600, tm_min |-> (t % 3600) \div 60, tm_sec |-> t % 60]

(* The clock starts just before a second at which several fields change *)
MaxTicks == 1

ClockStarts == {3599, 65535}

ClockValues == UNION {c..(c + MaxTicks) : c \in ClockStarts}

ThreadPositions == {EscapePosition}

(* The struct tm that a call of gmtime by thread t fills *)
BufOf(t) == IF tmStorage = "static" THEN 1 ELSE t

ThreadsIdle ==
    /\ tmBuf = [b \in Threads |-> Midnight]
    /\ pc = [t \in Threads |-> "idle"]
    /\ call = [t \in Threads |-> NoCall]
    /\ now = [t \in Threads |-> 0]
    /\ tmRead = [t \in Threads |-> NoneRead]
    /\ result = [t \in Threads |-> <<>>]

----------------------------------------------------------------------------
(* The configuration file (src/src/config.cpp).  A std::string is a        *)
(* sequence of one-character strings, a file is the sequence of its lines, *)
(* NoFile is a path that cannot be opened.  A rate is a float; the model   *)
(* holds it as a whole number of RateUnits of 10^-7, which is finer than   *)
(* the 6 significant digits the stream writes.                             *)

NoFile == [exists |-> FALSE, lines |-> <<>>]

File(lines) == [exists |-> TRUE, lines |-> lines]

Whitespace == {" ", "\t", "\r", "\n"}

SetMin(S) == CHOOSE x \in S : \A y \in S : x <= y

SetMax(S) == CHOOSE x \in S : \A y \in S : x >= y

(* std::string::find of one character: its first index, 0 for npos *)
Find(str, ch) ==
    LET S == {i \in 1..Len(str) : str[i] = ch}
    IN IF S = {} THEN 0 ELSE SetMin(S)

trim(str) ==
    LET S == {i \in 1..Len(str) : str[i] \notin Whitespace}
    IN IF S = {} THEN <<>> ELSE SubSeq(str, SetMin(S), SetMax(S))

UpperCase == <<"A", "B", "C", "D", "E", "F", "G", "H", "I", "J", "K", "L", "M", "N", "O", "P",
    "Q", "R", "S", "T", "U", "V", "W", "X", "Y", "Z">>

LowerCase == <<"a", "b", "c", "d", "e", "f", "g", "h", "i", "j", "k", "l", "m", "n", "o", "p",
    "q", "r", "s", "t", "u", "v", "w", "x", "y", "z">>

tolower(ch) ==
    IF \E i \in 1..26 : UpperCase[i] = ch
    THEN LowerCase[CHOOSE i \in 1..26 : UpperCase[i] = ch]
    ELSE ch

parseBool(value) ==
    LET lower == [i \in 1..Len(value) |-> tolower(value[i])]
    IN \/ lower = <<"t", "r", "u", "e">>
       \/ lower = <<"y", "e", "s">>
       \/ lower = <<"1">>
       \/ lower = <<"o", "n">>

DigitChars == <<"0", "1", "2", "3", "4", "5", "6", "7", "8", "9", "a", "b", "c", "d", "e", "f">>

(* The value of a digit of the base, -1 for any other character *)
DigitValue(ch, base) ==
    LET S == {i \in 1..base : DigitChars[i] = tolower(ch)}
    IN IF S = {} THEN -1 ELSE SetMin(S) - 1

(* The numeral of a non-negative integer, as operator<< writes it *)
RECURSIVE Numeral(_, _)
Numeral(n, base) ==
    IF n < base THEN <<DigitChars[n + 1]>>
    ELSE Append(Numeral(n \div base, base), DigitChars[(n % base) + 1])

(* The index of the first character that is no white space, one past     *)
(* the end when there is none                                              *)
SkipSpace(str) ==
    LET black == {i \in 1..Len(str) : str[i] \notin Whitespace}
    IN IF black = {} THEN Len(str) + 1 ELSE SetMin(black)

(* One past the last of the digits of the base that start at from *)
DigitsEnd(str, base, from) ==
    LET others == {i \in from..Len(str) : DigitValue(str[i], base) < 0}
    IN IF others = {} THEN Len(str) + 1 ELSE SetMin(others)

(* The number that the digits from..(stop - 1) write in the base *)
DigitsValue(str, base, from, stop) ==
    LET acc[i \in (from - 1)..(stop - 1)] ==
            IF i = from - 1 THEN 0 ELSE acc[i - 1] * base + DigitValue(str[i], base)
    IN acc[stop - 1]

ScanDigits(str, base, neg, from, stop) ==
    [digits |-> stop - from, neg |-> neg, mag |-> DigitsValue(str, base, from, stop)]

ScanPrefix(str, base, neg, first) ==
    IF /\ base = 16
       /\ first + 2 <= Len(str)
       /\ str[first] = "0"
       /\ tolower(str[first + 1]) = "x"
       /\ DigitValue(str[first + 2], 16) >= 0
    THEN ScanDigits(str, base, neg, first + 2, DigitsEnd(str, base, first + 2))
    ELSE ScanDigits(str, base, neg, first, DigitsEnd(str, base, first))

ScanSign(str, base, start) ==
    IF start <= Len(str) /\ str[start] \in {"+", "-"}
    THEN ScanPrefix(str, base, str[start] = "-", start + 1)
    ELSE ScanPrefix(str, base, FALSE, start)

(* strtoul and strtol on the start of str: white space, a sign, for base   *)
(* 16 an 0x before a digit, then the digits.  digits = 0 when there is     *)
(* nothing to convert.  The numerals of the modelled files stay far below  *)
(* the width of long, so that ERANGE does not arise.                       *)
ScanInteger(str, base) == ScanSign(str, base, SkipSpace(str))

stoulResult(r) == [thrown |-> r.digits = 0, wrapped |-> r.neg /\ r.mag > 0, mag |-> r.mag]

(* std::stoul: invalid_argument is thrown when nothing converts; a minus   *)
(* sign negates in unsigned long, so that -mag is 2^64 - mag (2^32 - mag   *)
(* where long has 32 bits).                                                *)
stoul(str, base) == stoulResult(ScanInteger(str, base))

stoiResult(r) ==
    [thrown |-> r.digits = 0,
     value |-> IF r.neg THEN (256 - (r.mag % 256)) % 256 ELSE r.mag % 256]

(* static_cast<uint8_t>(std::stoi(str)) *)
stoi_uint8(str) == stoiResult(ScanInteger(str, 10))

(* Decimal digits of a rate that the model keeps *)
RateDigits == 7

RateUnitsPerOne == 10 ^ RateDigits

(* The first RateDigits digits after the point, as a number of RateUnits *)
FractionValue(str, ffrom, fstop) ==
    LET frac[k \in 0..RateDigits] ==
            IF k = 0 THEN 0
            ELSE frac[k - 1] * 10
                 + (IF ffrom + k - 1 < fstop THEN DigitValue(str[ffrom + k - 1], 10) ELSE 0)
    IN frac[RateDigits]

stofValue(str, neg, from, stop, ffrom, fstop) ==
    [thrown |-> (stop - from) + (fstop - ffrom) = 0,
     value |-> (IF neg THEN -1 ELSE 1)
               * (DigitsValue(str, 10, from, stop) * RateUnitsPerOne
                  + FractionValue(str, ffrom, fstop))]

stofPoint(str, neg, from, stop) ==
    IF stop <= Len(str) /\ str[stop] = "."
    THEN stofValue(str, neg, from, stop, stop + 1, DigitsEnd(str, 10, stop + 1))
    ELSE stofValue(str, neg, from, stop, stop + 1, stop + 1)

stofSign(str, start) ==
    IF start <= Len(str) /\ str[start] \in {"+", "-"}
    THEN stofPoint(str, str[start] = "-", start + 1, DigitsEnd(str, 10, start + 1))
    ELSE stofPoint(str, FALSE, start, DigitsEnd(str, 10, start))

(* std::stof on a decimal numeral: white space, a sign, digits, a point,   *)
(* digits; invalid_argument when there is no digit.  The value is in       *)
(* RateUnits; exponents, inf and nan are in no modelled file.              *)
stof(str) == stofSign(str, SkipSpace(str))

(* The digits of v after the point, RateDigits of them *)
FractionDigits(v) ==
    LET fdigits[k \in 0..RateDigits] ==
            IF k = 0 THEN <<>>
            ELSE Append(fdigits[k - 1],
                        DigitChars[((v \div (10 ^ (RateDigits - k))) % 10) + 1])
    IN fdigits[RateDigits]

(* Without the trailing zeros, and without the point when nothing is left *)
FractionText(digits) ==
    LET kept == {k \in 1..Len(digits) : digits[k] # "0"}
    IN IF kept = {} THEN <<>> ELSE <<".">> \o SubSeq(digits, 1, SetMax(kept))

(* mag rounded to the 6 most significant of its n decimal digits *)
RoundSignificant(mag, n) ==
    IF n > 6
    THEN ((mag + (10 ^ (n - 6)) \div 2) \div (10 ^ (n - 6))) * (10 ^ (n - 6))
    ELSE mag

FormatMagnitude(v) ==
    Numeral(v \div RateUnitsPerOne, 10) \o FractionText(FractionDigits(v % RateUnitsPerOne))

(* operator<< of a float with the stream's default precision of 6: the     *)
(* value rounded to 6 significant digits, without trailing zeros and       *)
(* without a point when nothing follows it.  Rates from 0.0001 up, below   *)
(* which the stream switches to an exponent.                               *)
FormatFloat(r) ==
    IF r < 0
    THEN <<"-">> \o FormatMagnitude(RoundSignificant(0 - r, Len(Numeral(0 - r, 10))))
    ELSE FormatMagnitude(RoundSignificant(r, Len(Numeral(r, 10))))

DefaultConfig ==
    [target_ip |-> <<"1", "9", "2", ".", "1", "6", "8", ".", "1", ".", "1", "0", "0">>,
     target_port |-> 4000,
     icao_address |-> 11259375,
     callsign |-> <<"N", "1", "2", "3", "4", "5">>,
     emitter_category |-> 1,
     heartbeat_rate |-> 1 * RateUnitsPerOne,
     position_rate |-> 2 * RateUnitsPerOne,
     nic |-> 11,
     nacp |-> 11,
     debug_logging |-> FALSE,
     log_messages |-> FALSE]

(* What parseLine returns to load: the configuration, and whether an       *)
(* exception left the function, which happens before anything is assigned. *)
Parsed(cfg) == [thrown |-> FALSE, config |-> cfg]

Thrown(cfg) == [thrown |-> TRUE, config |-> cfg]

(* The value up to a comment character, trimmed *)
StripComment(value, ch) ==
    LET comment_pos == Find(value, ch)
    IN IF comment_pos # 0 THEN trim(SubSeq(value, 1, comment_pos - 1)) ELSE value

parsePort(cfg, port) ==
    IF port.thrown \/ port.wrapped \/ port.mag = 0 \/ port.mag > 65535
    THEN Thrown(cfg)
    ELSE Parsed([cfg EXCEPT !.target_port = port.mag])

parseIcao(cfg, icao) ==
    IF icao.thrown THEN Thrown(cfg)
    ELSE Parsed([cfg EXCEPT !.icao_address =
                    IF icao.wrapped
                    THEN (16777216 - (icao.mag % 16777216)) % 16777216
                    ELSE icao.mag % 16777216])

parseRate(cfg, field, rate) ==
    IF rate.thrown \/ rate.value <= 0 THEN Thrown(cfg)
    ELSE Parsed([cfg EXCEPT ![field] = rate.value])

parseSmall(cfg, field, small) ==
    IF small.thrown THEN Thrown(cfg)
    ELSE Parsed([cfg EXCEPT ![field] = small.value])

(* The assignment of parseLine for a key and its value *)
parseKeyValue(cfg, key, value) ==
    IF value = <<>> THEN Parsed(cfg)
    ELSE IF key = <<"t", "a", "r", "g", "e", "t", "_", "i",
        "p">> THEN Parsed([cfg EXCEPT !.target_ip = value])
    ELSE IF key = <<"t", "a", "r", "g", "e", "t", "_", "p", "o", "r", "t">> THEN parsePort(cfg,
        stoul(value, 10))
    ELSE IF key = <<"i", "c", "a", "o", "_", "a", "d", "d", "r", "e", "s", "s">>
         THEN IF Len(value) >= 2 /\ value[1] = "0" /\ value[2] \in {"x", "X"}
              THEN parseIcao(cfg, stoul(value, 16))
              ELSE parseIcao(cfg, stoul(value, 10))
    ELSE IF key = <<"c", "a", "l", "l", "s", "i", "g", "n">>
         THEN Parsed([cfg EXCEPT !.callsign = SubSeq(value, 1, Min(8, Len(value)))])
    ELSE IF key = <<"e", "m", "i", "t", "t", "e", "r", "_", "c", "a", "t", "e", "g", "o", "r",
        "y">> THEN parseSmall(cfg, "emitter_category", stoi_uint8(value))
    ELSE IF key = <<"h", "e", "a", "r", "t", "b", "e", "a", "t", "_", "r", "a", "t",
        "e">> THEN parseRate(cfg, "heartbeat_rate", stof(value))
    ELSE IF key = <<"p", "o", "s", "i", "t", "i", "o", "n", "_", "r", "a", "t",
        "e">> THEN parseRate(cfg, "position_rate", stof(value))
    ELSE IF key = <<"n", "i", "c">> THEN parseSmall(cfg, "nic", stoi_uint8(value))
    ELSE IF key = <<"n", "a", "c", "p">> THEN parseSmall(cfg, "nacp", stoi_uint8(value))
    ELSE IF key = <<"d", "e", "b", "u", "g", "_", "l", "o", "g", "g", "i", "n",
        "g">> THEN Parsed([cfg EXCEPT !.debug_logging = parseBool(value)])
    ELSE IF key = <<"l", "o", "g", "_", "m", "e", "s", "s", "a", "g", "e",
        "s">> THEN Parsed([cfg EXCEPT !.log_messages = parseBool(value)])
    ELSE Parsed(cfg)

parseAt(cfg, line, eq_pos) ==
    IF eq_pos = 0 THEN Parsed(cfg)
    ELSE parseKeyValue(cfg, trim(SubSeq(line, 1, eq_pos - 1)),
                       StripComment(StripComment(trim(SubSeq(line, eq_pos + 1, Len(line))),
                                                 "#"), ";"))

(* parseLine: empty lines, comment lines, lines without = and lines        *)
(* without a value are skipped, unknown keys are ignored                   *)
parseLine(cfg, line) ==
    IF line = <<>> \/ line[1] \in {"#", ";"} THEN Parsed(cfg)
    ELSE parseAt(cfg, line, Find(line, "="))

(* The body of the loop of ConfigManager::load: a line that throws sets    *)
(* the error and the flag, and the lines after it are still parsed.        *)
loadLine(st, line) ==
    LET parsed == parseLine(st.config, line)
    IN IF parsed.thrown
       THEN [config |-> st.config, had_error |-> TRUE, last_error_ |-> "Error parsing line"]
       ELSE [config |-> parsed.config, had_error |-> st.had_error,
             last_error_ |-> st.last_error_]

(* The loop over the lines lo..hi of the file, in order.  The range is     *)
(* halved and the first half is evaluated (the test on had_error asks for  *)
(* its value) before the second half starts, so that the evaluation nests  *)
(* no deeper than the logarithm of the number of lines.                    *)
RECURSIVE loadLines(_, _, _, _)
loadLines(st, lines, lo, hi) ==
    IF lo > hi THEN st
    ELSE IF lo = hi THEN loadLine(st, lines[lo])
    ELSE LET mid == (lo + hi) \div 2
             first == loadLines(st, lines, lo, mid)
         IN CASE first.had_error \in BOOLEAN -> loadLines(first, lines, mid + 1, hi)

(* ConfigManager::load without the restore of the original: what the      *)
(* lines before a failing line assigned stays.                             *)
load_noRestore(cfg, err, file) ==
    IF ~file.exists
    THEN [ret |-> FALSE, config_ |-> cfg, last_error_ |-> "Failed to open config file"]
    ELSE LET end == loadLines([config |-> cfg, had_error |-> FALSE, last_error_ |-> err],
                              file.lines, 1, Len(file.lines))
         IN IF end.had_error
            THEN [ret |-> FALSE, config_ |-> end.config, last_error_ |-> end.last_error_]
            ELSE [ret |-> TRUE, config_ |-> end.config, last_error_ |-> ""]

(* ConfigManager::load of a manager that holds cfg and err: one failed     *)
(* line restores the configuration of before the call.                     *)
load(cfg, err, file) ==
    IF ~file.exists
    THEN [ret |-> FALSE, config_ |-> cfg, last_error_ |-> "Failed to open config file"]
    ELSE LET end == loadLines([config |-> cfg, had_error |-> FALSE, last_error_ |-> err],
                              file.lines, 1, Len(file.lines))
         IN IF end.had_error
            THEN [ret |-> FALSE, config_ |-> cfg, last_error_ |-> end.last_error_]
            ELSE [ret |-> TRUE, config_ |-> end.config, last_error_ |-> ""]

BoolText(b) == IF b THEN <<"t", "r", "u", "e">> ELSE <<"f", "a", "l", "s", "e">>

(* The lines ConfigManager::save writes *)
SaveText(cfg) ==
    << <<"#", " ", "X", "P", "2", "G", "D", "L", "9", "0", " ", "C", "o", "n", "f", "i", "g",
        "u", "r", "a", "t", "i", "o", "n", " ", "F", "i", "l", "e">>,
       <<"#", " ", "G", "e", "n", "e", "r", "a", "t", "e", "d", " ", "c", "o", "n", "f", "i",
           "g", "u", "r", "a", "t", "i", "o", "n">>,
       <<>>,
       <<"[", "N", "e", "t", "w", "o", "r", "k", "]">>,
       <<"t", "a", "r", "g", "e", "t", "_", "i", "p", " ", "=", " ">> \o cfg.target_ip,
       <<"t", "a", "r", "g", "e", "t", "_", "p", "o", "r", "t", " ", "=",
           " ">> \o Numeral(cfg.target_port, 10),
       <<>>,
       <<"[", "O", "w", "n", "s", "h", "i", "p", "]">>,
       <<"i", "c", "a", "o", "_", "a", "d", "d", "r", "e", "s", "s", " ", "=", " ", "0",
           "x">> \o Numeral(cfg.icao_address, 16),
       <<"c", "a", "l", "l", "s", "i", "g", "n", " ", "=", " ">> \o cfg.callsign,
       <<"e", "m", "i", "t", "t", "e", "r", "_", "c", "a", "t", "e", "g", "o", "r", "y", " ",
           "=", " ">> \o Numeral(cfg.emitter_category, 10),
       <<>>,
       <<"[", "U", "p", "d", "a", "t", "e", " ", "R", "a", "t", "e", "s", "]">>,
       <<"h", "e", "a", "r", "t", "b", "e", "a", "t", "_", "r", "a", "t", "e", " ", "=",
           " ">> \o FormatFloat(cfg.heartbeat_rate),
       <<"p", "o", "s", "i", "t", "i", "o", "n", "_", "r", "a", "t", "e", " ", "=",
           " ">> \o FormatFloat(cfg.position_rate),
       <<>>,
       <<"[", "A", "c", "c", "u", "r", "a", "c", "y", "]">>,
       <<"n", "i", "c", " ", "=", " ">> \o Numeral(cfg.nic, 10),
       <<"n", "a", "c", "p", " ", "=", " ">> \o Numeral(cfg.nacp, 10),
       <<>>,
       <<"[", "D", "e", "b", "u", "g", "]">>,
       <<"d", "e", "b", "u", "g", "_", "l", "o", "g", "g", "i", "n", "g", " ", "=",
           " ">> \o BoolText(cfg.debug_logging),
       <<"l", "o", "g", "_", "m", "e", "s", "s", "a", "g", "e", "s", " ", "=",
           " ">> \o BoolText(cfg.log_messages) >>

(* ConfigManager::save: the file after the call, the result and the error; *)
(* writable is whether the file can be opened for writing.                 *)
save(cfg, err, file, writable) ==
    IF ~writable
    THEN [ret |-> FALSE, file |-> file, last_error_ |-> "Failed to open config file for writing"]
    ELSE [ret |-> TRUE, file |-> File(SaveText(cfg)), last_error_ |-> ""]


(* Configurations a caller stores through getConfig(): the defaults with   *)
(* one field changed, and the configuration of the round-trip test.        *)
TestConfig ==
    [target_ip |-> <<"1", "7", "2", ".", "1", "6", ".", "0", ".", "1", "0">>,
     target_port |-> 4020,
     icao_address |-> 658188,
     callsign |-> <<"U", "N", "I", "T", "T", "E", "S", "T">>,
     emitter_category |-> 5,
     heartbeat_rate |-> 25000000,
     position_rate |-> 12500000,
     nic |-> 10,
     nacp |-> 8,
     debug_logging |-> TRUE,
     log_messages |-> FALSE]

TargetIpInputs == {<<"1", ".", "2", ".", "3", ".", "4">>, <<>>, <<"1", "0", ".", "0", ".", "0",
    ".", "5", " ">>, <<"h", "o", "s", "t", "#", "1">>}

TargetPortInputs == {0, 1, 65535}

CallsignInputs == {<<>>, <<"A", "B", " ", "C", "D">>, <<"N", "1", ";">>}

RateInputs == {1000, 5000000, 3333333, 12345678, 600000000}

ByteInputs == {0, 255}

ConfigInputs ==
    {DefaultConfig, TestConfig}
    \cup {[DefaultConfig EXCEPT !.target_ip = v] : v \in TargetIpInputs}
    \cup {[DefaultConfig EXCEPT !.target_port = v] : v \in TargetPortInputs}
    \cup {[DefaultConfig EXCEPT !.icao_address = v] : v \in {0, 16777215}}
    \cup {[DefaultConfig EXCEPT !.callsign = v] : v \in CallsignInputs}
    \cup {[DefaultConfig EXCEPT !.emitter_category = v] : v \in ByteInputs}
    \cup {[DefaultConfig EXCEPT !.heartbeat_rate = v] : v \in RateInputs}
    \cup {[DefaultConfig EXCEPT !.position_rate = 3333330]}
    \cup {[DefaultConfig EXCEPT !.nic = 0], [DefaultConfig EXCEPT !.nacp = 255]}
    \cup {[DefaultConfig EXCEPT !.debug_logging = TRUE],
          [DefaultConfig EXCEPT !.log_messages = TRUE]}

(* Lines of a hand-written file: lines that parse ...                      *)
GoodLines ==
    {<<"t", "a", "r", "g", "e", "t", "_", "i", "p", " ", "=", " ", "1", "9", "2", ".", "1",
        "6", "8", ".", "1", ".", "5", "5">>,
     <<"t", "a", "r", "g", "e", "t", "_", "p", "o", "r", "t", " ", "=", " ", "5", "0", "0",
         "0", " ", "#", " ", "b", "r", "o", "a", "d", "c", "a", "s", "t", " ", "p", "o", "r",
         "t">>,
     <<"h", "e", "a", "r", "t", "b", "e", "a", "t", "_", "r", "a", "t", "e", " ", "=", " ",
         "0", ".", "5">>}

(* ... and lines on which parseLine throws                                 *)
BadLines ==
    {<<"t", "a", "r", "g", "e", "t", "_", "p", "o", "r", "t", " ", "=", " ", "0">>,
     <<"t", "a", "r", "g", "e", "t", "_", "p", "o", "r", "t", " ", "=", " ", "6", "5", "5",
         "3", "6">>,
     <<"n", "i", "c", " ", "=", " ", "x">>,
     <<"p", "o", "s", "i", "t", "i", "o", "n", "_", "r", "a", "t", "e", " ", "=", " ", "-", "1">>}

MaxFileLines == 2

(* Calls of load and save made on one manager *)
MaxCalls == 1

FileInputs ==
    {File(lines) : lines \in UNION {[1..n -> GoodLines \cup BadLines] : n \in 0..MaxFileLines}}

(* A manager as its constructor leaves it, no file, and no call made *)
ConfigIdle ==
    /\ config_ = DefaultConfig
    /\ last_error_ = ""
    /\ disk = NoFile
    /\ cfgCall = [op |-> "construct", ret |-> TRUE, before |-> DefaultConfig, calls |-> 0]

----------------------------------------------------------------------------
(* The UDP broadcaster (src/src/udp_broadcaster.cpp, the POSIX build).  A  *)
(* broadcaster is the record of its members; alive tells an object from    *)
(* the place where none is.  The sockets of the process are a sequence:    *)
(* socket() appends an open socket and returns its index, so that no       *)
(* descriptor is handed out twice, and closes counts the calls of          *)
(* ::close on it.                                                          *)

NoBroadcaster ==
    [alive |-> FALSE, target_ip_ |-> <<>>, target_port_ |-> 0, initialized_ |-> FALSE,
     socket_ |-> -1, last_error_ |-> ""]

UDPBroadcaster(target_ip, target_port) ==
    [alive |-> TRUE, target_ip_ |-> target_ip, target_port_ |-> target_port,
     initialized_ |-> FALSE, socket_ |-> -1, last_error_ |-> ""]

(* ::close of a descriptor *)
closeSocket(k, fd) ==
    [k EXCEPT ![fd] = [open |-> FALSE, closes |-> k[fd].closes + 1]]

(* One number of a dotted quad: 1 to 3 digits, at most 255, no leading 0 *)
IsOctet(str) ==
    /\ Len(str) \in 1..3
    /\ \A i \in 1..Len(str) : DigitValue(str[i], 10) >= 0
    /\ Len(str) > 1 => str[1] # "0"
    /\ DigitsValue(str, 10, 1, Len(str) + 1) <= 255

(* inet_pton(AF_INET, ...) succeeds: four octets between three dots *)
inet_pton(str) ==
    LET dots == {i \in 1..Len(str) : str[i] = "."}
    IN /\ Cardinality(dots) = 3
       /\ \E a \in dots, b \in dots, c \in dots :
              /\ a < b
              /\ b < c
              /\ IsOctet(SubSeq(str, 1, a - 1))
              /\ IsOctet(SubSeq(str, a + 1, b - 1))
              /\ IsOctet(SubSeq(str, b + 1, c - 1))
              /\ IsOctet(SubSeq(str, c + 1, Len(str)))

(* initialize() that opens a socket although the object has one *)
initialize_reopen(b, k, socket_ok, setsockopt_ok) ==
    IF ~socket_ok
    THEN [ret |-> FALSE,
          b |-> [b EXCEPT !.socket_ = -1, !.last_error_ = "Socket creation failed"],
          k |-> k]
    ELSE IF ~setsockopt_ok
    THEN [ret |-> FALSE,
          b |-> [b EXCEPT !.socket_ = -1, !.last_error_ = "Failed to set SO_BROADCAST"],
          k |-> Append(k, [open |-> FALSE, closes |-> 1])]
    ELSE [ret |-> TRUE,
          b |-> [b EXCEPT !.socket_ = Len(k) + 1, !.initialized_ = TRUE, !.last_error_ = ""],
          k |-> Append(k, [open |-> TRUE, closes |-> 0])]

(* initialize(): the result, the broadcaster and the sockets after the     *)
(* call; socket_ok and setsockopt_ok are what the system calls answer.     *)
initialize(b, k, socket_ok, setsockopt_ok) ==
    IF b.initialized_ THEN [ret |-> TRUE, b |-> b, k |-> k]
    ELSE IF ~socket_ok
    THEN [ret |-> FALSE,
          b |-> [b EXCEPT !.socket_ = -1, !.last_error_ = "Socket creation failed"],
          k |-> k]
    ELSE IF ~setsockopt_ok
    THEN [ret |-> FALSE,
          b |-> [b EXCEPT !.socket_ = -1, !.last_error_ = "Failed to set SO_BROADCAST"],
          k |-> closeSocket(Append(k, [open |-> TRUE, closes |-> 0]), Len(k) + 1)]
    ELSE [ret |-> TRUE,
          b |-> [b EXCEPT !.socket_ = Len(k) + 1, !.initialized_ = TRUE, !.last_error_ = ""],
          k |-> Append(k, [open |-> TRUE, closes |-> 0])]

(* send() without the test of initialized_ *)
send_noInitCheck(b, bytes, sendto_ok) ==
    IF ~inet_pton(b.target_ip_)
    THEN [ret |-> -1, b |-> [b EXCEPT !.last_error_ = "Invalid IP address"], sent |-> <<>>]
    ELSE IF ~sendto_ok
    THEN [ret |-> -1, b |-> [b EXCEPT !.last_error_ = "sendto failed"], sent |-> <<>>]
    ELSE [ret |-> Len(bytes), b |-> b,
          sent |-> <<[ip |-> b.target_ip_, port |-> b.target_port_, bytes |-> bytes]>>]

(* send(): the result, the broadcaster after the call, and the datagrams   *)
(* that left; sendto_ok is whether sendto takes the datagram.              *)
send(b, bytes, sendto_ok) ==
    IF ~b.initialized_
    THEN [ret |-> -1, b |-> [b EXCEPT !.last_error_ = "Socket not initialized"], sent |-> <<>>]
    ELSE IF ~inet_pton(b.target_ip_)
    THEN [ret |-> -1, b |-> [b EXCEPT !.last_error_ = "Invalid IP address"], sent |-> <<>>]
    ELSE IF ~sendto_ok
    THEN [ret |-> -1, b |-> [b EXCEPT !.last_error_ = "sendto failed"], sent |-> <<>>]
    ELSE [ret |-> Len(bytes), b |-> b,
          sent |-> <<[ip |-> b.target_ip_, port |-> b.target_port_, bytes |-> bytes]>>]

(* close() that forgets the socket without closing it *)
close_leak(b, k) ==
    IF ~b.initialized_ THEN [b |-> b, k |-> k]
    ELSE [b |-> [b EXCEPT !.socket_ = -1, !.initialized_ = FALSE], k |-> k]

(* close(), which the destructor calls as well *)
close(b, k) ==
    IF ~b.initialized_ THEN [b |-> b, k |-> k]
    ELSE IF b.socket_ >= 0
    THEN [b |-> [b EXCEPT !.socket_ = -1, !.initialized_ = FALSE],
          k |-> closeSocket(k, b.socket_)]
    ELSE [b |-> [b EXCEPT !.initialized_ = FALSE], k |-> k]


ValidIps == {<<"1", "2", "7", ".", "0", ".", "0", ".", "1">>, <<"2", "5", "5", ".", "2", "5",
    "5", ".", "2", "5", "5", ".", "2", "5", "5">>}

InvalidIps == {<<"i", "n", "v", "a", "l", "i", "d", "_", "i", "p">>, <<>>, <<"2", "5", "6",
    ".", "0", ".", "0", ".", "1">>}

UdpPortInputs == {4000}

DatagramInputs == {<<>>, <<1, 2, 3>>}

(* Sockets the process opens *)
MaxSockets == 3

NoUdpCall ==
    [op |-> "none", ret |-> 0, before |-> NoBroadcaster, kernelBefore |-> <<>>,
     sent |-> <<>>, system |-> <<TRUE, TRUE>>]

(* No broadcaster constructed and no socket opened *)
UdpIdle ==
    /\ bcast = NoBroadcaster
    /\ kernel = <<>>
    /\ udpCall = NoUdpCall

----------------------------------------------------------------------------
(* The plugin (src/src/main.cpp).  A plugin state g holds the flags and    *)
(* the times of PluginState: objects tells whether encoder, broadcaster    *)
(* and config_manager point to objects, menu whether the plugin's menu     *)
(* exists, window what X-Plane shows of the settings window.  The          *)
(* plugin's ConfigManager is config_ and last_error_, its configuration    *)
(* file is disk, its broadcaster is bcast and its sockets are in kernel.   *)
(* Sim time is counted in ticks.                                           *)

(* Ticks of sim time in a second *)
TicksPerSecond == 1

(* The initializers of PluginState *)
NoPlugin ==
    [initialized |-> FALSE, enabled |-> FALSE, last_heartbeat |-> 0, last_position |-> 0,
     objects |-> FALSE, menu |-> FALSE, window |-> "none", window_visible |-> FALSE]

FieldIds ==
    {"target_ip", "target_port", "icao_address", "callsign", "emitter_category",
     "heartbeat_rate", "position_rate", "nic", "nacp", "debug_logging", "log_messages"}

(* field_values of a new PluginState: empty strings *)
NoFields == [f \in FieldIds |-> <<>>]

toupper(ch) ==
    IF \E i \in 1..26 : LowerCase[i] = ch
    THEN UpperCase[CHOOSE i \in 1..26 : LowerCase[i] = ch]
    ELSE ch

(* "0x" and the low 24 bits in 6 upper-case hexadecimal digits *)
FormatHex24(value) ==
    LET digits == Numeral(value % 16777216, 16)
    IN <<"0", "x">> \o [i \in 1..(6 - Len(digits)) |-> "0"]
             \o [i \in 1..Len(digits) |-> toupper(digits[i])]

(* std::to_string of a float that is not negative: "%f", 6 digits after    *)
(* the point, rounded                                                      *)
to_string(r) ==
    LET micro == (r + (10 ^ (RateDigits - 6)) \div 2) \div (10 ^ (RateDigits - 6))
    IN Numeral(micro \div 1000000, 10) \o <<".">>
       \o SubSeq(FractionDigits((micro % 1000000) * (10 ^ (RateDigits - 6))), 1, 6)

SyncFieldsFromConfig(cfg) ==
    [target_ip |-> cfg.target_ip,
     target_port |-> Numeral(cfg.target_port, 10),
     icao_address |-> FormatHex24(cfg.icao_address),
     callsign |-> cfg.callsign,
     emitter_category |-> Numeral(cfg.emitter_category, 10),
     heartbeat_rate |-> to_string(cfg.heartbeat_rate),
     position_rate |-> to_string(cfg.position_rate),
     nic |-> Numeral(cfg.nic, 10),
     nacp |-> Numeral(cfg.nacp, 10),
     debug_logging |-> BoolText(cfg.debug_logging),
     log_messages |-> BoolText(cfg.log_messages)]

(* ParseBool of main.cpp: whether the text is a boolean, and which *)
ParseBool(value) ==
    LET trimmed == trim(value)
        lowered == [i \in 1..Len(trimmed) |-> tolower(trimmed[i])]
    IN IF lowered \in {<<"t", "r", "u", "e">>, <<"1">>, <<"y", "e", "s">>, <<"o",
        "n">>} THEN [ok |-> TRUE, value |-> TRUE]
       ELSE IF lowered \in {<<"f", "a", "l", "s", "e">>, <<"0">>, <<"n", "o">>, <<"o", "f",
           "f">>} THEN [ok |-> TRUE, value |-> FALSE]
       ELSE [ok |-> FALSE, value |-> FALSE]

ApplyBool(cfg, field, parsed) ==
    IF parsed.ok THEN Parsed([cfg EXCEPT ![field] = parsed.value]) ELSE Thrown(cfg)

(* The k-th field of the try block of ApplyFieldsToConfig: thrown stands   *)
(* for the return of false and for the exception that ends in one; the     *)
(* conversions and the range checks are those of parseLine.                *)
ApplyField(k, fields, cfg) ==
    CASE k = 1 -> IF trim(fields.target_ip) = <<>> THEN Thrown(cfg)
                  ELSE Parsed([cfg EXCEPT !.target_ip = trim(fields.target_ip)])
      [] k = 2 -> parsePort(cfg, stoul(fields.target_port, 10))
      [] k = 3 -> IF /\ Len(trim(fields.icao_address)) >= 2
                     /\ SubSeq(trim(fields.icao_address), 1, 2) \in {<<"0", "x">>, <<"0", "X">>}
                  THEN parseIcao(cfg, stoul(trim(fields.icao_address), 16))
                  ELSE parseIcao(cfg, stoul(trim(fields.icao_address), 10))
      [] k = 4 -> Parsed([cfg EXCEPT !.callsign =
                             SubSeq(trim(fields.callsign), 1,
                                    Min(8, Len(trim(fields.callsign))))])
      [] k = 5 -> parseSmall(cfg, "emitter_category", stoi_uint8(fields.emitter_category))
      [] k = 6 -> parseRate(cfg, "heartbeat_rate", stof(fields.heartbeat_rate))
      [] k = 7 -> parseRate(cfg, "position_rate", stof(fields.position_rate))
      [] k = 8 -> parseSmall(cfg, "nic", stoi_uint8(fields.nic))
      [] k = 9 -> parseSmall(cfg, "nacp", stoi_uint8(fields.nacp))
      [] k = 10 -> ApplyBool(cfg, "debug_logging", ParseBool(fields.debug_logging))
      [] k = 11 -> ApplyBool(cfg, "log_messages", ParseBool(fields.log_messages))

(* new_cfg after the try block, field after field until one fails *)
ApplyFields(fields, cfg) ==
    LET step[k \in 0..11] ==
            IF k = 0 THEN Parsed(cfg)
            ELSE LET prev == step[k - 1]
                 IN IF prev.thrown THEN prev ELSE ApplyField(k, fields, prev.config)
    IN step[11]

(* The field that is being typed into is taken over by a click on Apply   *)
(* or on Save                                                              *)
Commit(fields, edit) ==
    IF edit[1] = "none" THEN fields ELSE [fields EXCEPT ![edit[1]] = edit[2]]

TargetChanged(old_cfg, new_cfg) ==
    old_cfg.target_ip # new_cfg.target_ip \/ old_cfg.target_port # new_cfg.target_port

(* Mutation: the configuration gets a new target and the broadcaster stays *)
Retarget_keep(old_cfg, new_cfg, b, k, socket_ok, setsockopt_ok) ==
    [ret |-> TRUE, b |-> b, k |-> k]

(* Mutation: the new broadcaster takes over although it did not initialize *)
Retarget_unchecked(old_cfg, new_cfg, b, k, socket_ok, setsockopt_ok) ==
    IF ~TargetChanged(old_cfg, new_cfg)
    THEN [ret |-> TRUE, b |-> b, k |-> k]
    ELSE LET made == initialize(UDPBroadcaster(new_cfg.target_ip, new_cfg.target_port),
                                k, socket_ok, setsockopt_ok)
         IN [ret |-> TRUE, b |-> made.b, k |-> close(b, made.k).k]

(* if (target_changed) of ApplyFieldsToConfig and of ReloadConfigFromDisk: *)
(* a new broadcaster is made and initialized, and takes the place of the   *)
(* old one, which is destroyed, when that succeeded; when it failed the    *)
(* new one is destroyed.                                                   *)
Retarget(old_cfg, new_cfg, b, k, socket_ok, setsockopt_ok) ==
    IF ~TargetChanged(old_cfg, new_cfg)
    THEN [ret |-> TRUE, b |-> b, k |-> k]
    ELSE LET made == initialize(UDPBroadcaster(new_cfg.target_ip, new_cfg.target_port),
                                k, socket_ok, setsockopt_ok)
         IN IF ~made.ret
            THEN [ret |-> FALSE, b |-> b, k |-> close(made.b, made.k).k]
            ELSE [ret |-> TRUE, b |-> made.b, k |-> close(b, made.k).k]

ApplyRetargeted(cfg, new_cfg, b, changed) ==
    IF changed.ret
    THEN [ret |-> TRUE, config_ |-> new_cfg, b |-> changed.b, k |-> changed.k]
    ELSE [ret |-> FALSE, config_ |-> cfg, b |-> b, k |-> changed.k]

(* Mutation: the parsed fields are assigned before the broadcaster is made *)
ApplyFieldsToConfig_early(parsed, cfg, b, k, socket_ok, setsockopt_ok) ==
    IF parsed.thrown
    THEN [ret |-> FALSE, config_ |-> cfg, b |-> b, k |-> k]
    ELSE [ApplyRetargeted(cfg, parsed.config, b,
                          Retarget(cfg, parsed.config, b, k, socket_ok, setsockopt_ok))
            EXCEPT !.config_ = parsed.config]

(* ApplyFieldsToConfig: the result, the configuration of the manager, the  *)
(* broadcaster and the sockets after the call; parsed is new_cfg after the *)
(* try block, or that it was left with a return or an exception.           *)
ApplyFieldsToConfig(parsed, cfg, b, k, socket_ok, setsockopt_ok) ==
    IF parsed.thrown
    THEN [ret |-> FALSE, config_ |-> cfg, b |-> b, k |-> k]
    ELSE ApplyRetargeted(cfg, parsed.config, b,
                         Retarget(cfg, parsed.config, b, k, socket_ok, setsockopt_ok))

ReloadRetargeted(previous, loaded, fields, b, changed) ==
    IF changed.ret
    THEN [ret |-> TRUE, config_ |-> loaded.config_, last_error_ |-> loaded.last_error_,
          fields |-> SyncFieldsFromConfig(loaded.config_), b |-> changed.b, k |-> changed.k]
    ELSE [ret |-> FALSE, config_ |-> previous, last_error_ |-> loaded.last_error_,
          fields |-> fields, b |-> b, k |-> changed.k]

(* Mutation: the loaded configuration stays when the broadcaster failed *)
ReloadConfigFromDisk_noRestore(previous, loaded, fields, b, k, socket_ok, setsockopt_ok) ==
    IF ~loaded.ret
    THEN [ret |-> FALSE, config_ |-> loaded.config_, last_error_ |-> loaded.last_error_,
          fields |-> fields, b |-> b, k |-> k]
    ELSE [ReloadRetargeted(previous, loaded, fields, b,
                           Retarget(previous, loaded.config_, b, k, socket_ok,
                                    setsockopt_ok))
            EXCEPT !.config_ = loaded.config_]

(* ReloadConfigFromDisk: the result, the manager, the fields of the        *)
(* window, the broadcaster and the sockets after the call; previous is the *)
(* configuration before it and loaded what load() of the file returns.     *)
ReloadConfigFromDisk(previous, loaded, fields, b, k, socket_ok, setsockopt_ok) ==
    IF ~loaded.ret
    THEN [ret |-> FALSE, config_ |-> loaded.config_, last_error_ |-> loaded.last_error_,
          fields |-> fields, b |-> b, k |-> k]
    ELSE ReloadRetargeted(previous, loaded, fields, b,
                          Retarget(previous, loaded.config_, b, k, socket_ok, setsockopt_ok))

(* XPluginStart after the configuration is loaded: the broadcaster, the    *)
(* datarefs, the menu and the window                                       *)
StartBroadcaster(g, loaded, file, made, datarefs_ok) ==
    [ret |-> IF made.ret /\ datarefs_ok THEN 1 ELSE 0,
     g |-> [g EXCEPT !.initialized = made.ret /\ datarefs_ok,
                     !.enabled = FALSE,
                     !.last_heartbeat = 0,
                     !.last_position = 0,
                     !.objects = TRUE,
                     !.menu = g.menu \/ (made.ret /\ datarefs_ok),
                     !.window = IF made.ret /\ datarefs_ok THEN "hidden" ELSE g.window],
     config_ |-> loaded.config_,
     last_error_ |-> loaded.last_error_,
     disk |-> file,
     b |-> made.b,
     k |-> made.k]

StartLoaded(g, loaded, saved, b, k, socket_ok, setsockopt_ok, datarefs_ok) ==
    StartBroadcaster(g, [loaded EXCEPT !.last_error_ = saved.last_error_], saved.file,
                     initialize(UDPBroadcaster(loaded.config_.target_ip,
                                               loaded.config_.target_port),
                                close(b, k).k, socket_ok, setsockopt_ok),
                     datarefs_ok)

(* XPluginStart: a new ConfigManager loads the file, and saves its         *)
(* defaults when it could not; a new broadcaster for the target takes the  *)
(* place of the old one and is initialized.  loaded is what load() of the  *)
(* new manager returns for the file.  The result, the plugin state, the    *)
(* manager, the file, the broadcaster and the sockets after the call.      *)
XPluginStart(g, loaded, file, b, k, writable, socket_ok, setsockopt_ok, datarefs_ok) ==
    IF loaded.ret
    THEN StartLoaded(g, loaded, [file |-> file, last_error_ |-> loaded.last_error_],
                     b, k, socket_ok, setsockopt_ok, datarefs_ok)
    ELSE StartLoaded(g, loaded, save(loaded.config_, loaded.last_error_, file, writable),
                     b, k, socket_ok, setsockopt_ok, datarefs_ok)

(* XPluginStop: the objects are destroyed, the window is destroyed, and    *)
(* the flags stay                                                          *)
XPluginStop(g, b, k) ==
    [g |-> [g EXCEPT !.objects = FALSE, !.window = "none"],
     b |-> NoBroadcaster,
     k |-> close(b, k).k,
     unregisters |-> g.enabled]

(* Mutation: XPluginEnable without the test of initialized *)
XPluginEnable_unchecked(g) ==
    [ret |-> 1, g |-> [g EXCEPT !.enabled = TRUE], registers |-> TRUE]

XPluginEnable(g) ==
    IF ~g.initialized THEN [ret |-> 0, g |-> g, registers |-> FALSE]
    ELSE [ret |-> 1, g |-> [g EXCEPT !.enabled = TRUE], registers |-> TRUE]

XPluginDisable(g) == [g EXCEPT !.enabled = FALSE]

(* ShowSettingsWindow *)
ShowSettingsWindow(g, fields, cfg, show) ==
    IF g.window = "none" THEN [g |-> g, fields |-> fields]
    ELSE [g |-> [g EXCEPT !.window_visible = show,
                          !.window = IF show THEN "shown" ELSE "hidden"],
          fields |-> IF show THEN SyncFieldsFromConfig(cfg) ELSE fields]

(* The readings of the datarefs of the flight, as GetOwnshipData converts  *)
(* them; the aircraft has a tail number                                    *)
FlightData == [ScenarioPosition EXCEPT !.track_type = 1]

GetOwnshipData(cfg, flight) ==
    [flight EXCEPT !.icao_address = cfg.icao_address,
                   !.emitter_category = cfg.emitter_category,
                   !.address_type = 0,
                   !.nic = cfg.nic,
                   !.nacp = cfg.nacp,
                   !.alert_status = 0,
                   !.emergency_code = 0]

(* The messages of the flight at midnight UTC with the identity of the     *)
(* default configuration are built once                                    *)
DefaultOwnshipReport ==
    createOwnshipReport(GetOwnshipData(DefaultConfig, FlightData), "wrap")

MidnightHeartbeat == createHeartbeat(TRUE, TRUE, 0)

OwnshipReportOf(cfg, flight) ==
    IF GetOwnshipData(cfg, flight) = GetOwnshipData(DefaultConfig, FlightData)
    THEN DefaultOwnshipReport
    ELSE createOwnshipReport(GetOwnshipData(cfg, flight), "wrap")

HeartbeatAt(utc) == IF utc = 0 THEN MidnightHeartbeat ELSE createHeartbeat(TRUE, TRUE, utc)

(* sim_time - last >= 1.0f / rate of FlightLoopCallback, in ticks and     *)
(* RateUnits; exact for the rates and the times of the model               *)
Due(rate, sim_time, last) ==
    /\ rate > 0
    /\ (sim_time - last) * rate >= TicksPerSecond * RateUnitsPerOne

NothingSent(g, b) == [g |-> g, b |-> b, handed |-> <<>>, sent |-> <<>>]

(* One of the two messages of FlightLoopCallback is handed to send() *)
Broadcast(r, outcome, bytes) ==
    [r EXCEPT !.b = outcome.b,
              !.handed = Append(r.handed, bytes),
              !.sent = r.sent \o outcome.sent]

FlightLoopPosition(r, cfg, sim_time, flight, sendto_ok) ==
    IF Due(cfg.position_rate, sim_time, r.g.last_position)
    THEN [Broadcast(r, send(r.b, OwnshipReportOf(cfg, flight),
                            sendto_ok),
                    OwnshipReportOf(cfg, flight))
            EXCEPT !.g.last_position = sim_time]
    ELSE r

(* Mutation: the time of the heartbeat is not kept *)
FlightLoopHeartbeat_noStamp(r, cfg, sim_time, utc, sendto_ok) ==
    IF Due(cfg.heartbeat_rate, sim_time, r.g.last_heartbeat)
    THEN Broadcast(r, send(r.b, HeartbeatAt(utc), sendto_ok),
                   HeartbeatAt(utc))
    ELSE r

(* Mutation: a heartbeat only after more than the period *)
FlightLoopHeartbeat_late(r, cfg, sim_time, utc, sendto_ok) ==
    IF Due(cfg.heartbeat_rate, sim_time - 1, r.g.last_heartbeat)
    THEN [Broadcast(r, send(r.b, HeartbeatAt(utc), sendto_ok),
                    HeartbeatAt(utc))
            EXCEPT !.g.last_heartbeat = sim_time]
    ELSE r

FlightLoopHeartbeat(r, cfg, sim_time, utc, sendto_ok) ==
    IF Due(cfg.heartbeat_rate, sim_time, r.g.last_heartbeat)
    THEN [Broadcast(r, send(r.b, HeartbeatAt(utc), sendto_ok),
                    HeartbeatAt(utc))
            EXCEPT !.g.last_heartbeat = sim_time]
    ELSE r

(* Mutation: FlightLoopCallback without the test of the two flags *)
FlightLoopCallback_unguarded(g, cfg, b, sim_time, utc, flight, sendto_ok) ==
    FlightLoopPosition(FlightLoopHeartbeat(NothingSent(g, b), cfg, sim_time, utc, sendto_ok),
                       cfg, sim_time, flight, sendto_ok)

(* FlightLoopCallback of a plugin whose objects exist: the plugin state    *)
(* and the broadcaster after the call, the messages handed to send() and   *)
(* the datagrams that left.  utc is what getUTCTime returns, sendto_ok     *)
(* whether the network takes datagrams.                                    *)
FlightLoopCallback(g, cfg, b, sim_time, utc, flight, sendto_ok) ==
    IF ~g.enabled \/ ~g.initialized THEN NothingSent(g, b)
    ELSE FlightLoopPosition(FlightLoopHeartbeat(NothingSent(g, b), cfg, sim_time, utc,
                                                sendto_ok),
                            cfg, sim_time, flight, sendto_ok)

(* The configuration file when X-Plane loads the plugin *)
PluginFiles ==
    {NoFile,
     File(<<<<"h", "e", "a", "r", "t", "b", "e", "a", "t", "_", "r", "a", "t", "e", " ", "=",
         " ", "0", ".", "5">>>>),
     File(<<<<"h", "e", "a", "r", "t", "b", "e", "a", "t", "_", "r", "a", "t", "e", " ", "=",
         " ", "2">>>>)}

(* What the user writes into the configuration file while the plugin runs *)
SettingsFiles ==
    {NoFile,
     File(<<<<"t", "a", "r", "g", "e", "t", "_", "i", "p", " ", "=", " ", "1", "9", "2", ".",
         "1", "6", "8", ".", "1", ".", "5", "5">>>>),
     File(<<<<"t", "a", "r", "g", "e", "t", "_", "p", "o", "r", "t", " ", "=", " ", "5", "0",
         "0", "0", " ", "#", " ", "b", "r", "o", "a", "d", "c", "a", "s", "t", " ", "p", "o",
         "r", "t">>, <<"n", "i", "c", " ", "=", " ", "x">>>>)}

(* What the user types into one field of the settings window *)
ValidEdits ==
    {<<"target_ip", <<" ", "1", "2", "7", ".", "0", ".", "0", ".", "1">>>>, <<"target_port",
        <<"4", "0", "0", "1">>>>, <<"debug_logging", <<"O", "n">>>>}

InvalidEdits ==
    {<<"target_ip", <<" ">>>>,
     <<"target_port", <<"0">>>>, <<"target_port", <<"6", "5", "5", "3", "6">>>>,
         <<"target_port", <<"-", "1">>>>,
     <<"icao_address", <<"z", "z">>>>,
     <<"emitter_category", <<>>>>,
     <<"heartbeat_rate", <<"0">>>>,
     <<"position_rate", <<"-", "1">>>>,
     <<"nacp", <<"x">>>>,
     <<"log_messages", <<"m", "a", "y", "b", "e">>>>}

(* A click without an edit before it *)
NoEdit == <<"none", <<>>>>

(* Calls of XPluginStart *)
MaxStarts == 2

(* Clicks on Apply and Save and choices of Reload Config *)
MaxClicks == 2

(* Fields typed into since the window last showed the configuration *)
MaxEdits == 1

(* The largest reading of sim/time/total_flight_time_sec, in ticks *)
MaxSimTime == 4

SimTimes == 0..MaxSimTime

NoPluginLog ==
    [prevHeartbeat |-> -1, prevCallback |-> -1, gap |-> -1, disabled |-> FALSE, edits |-> 0,
     starts |-> 0, clicks |-> 0]

NoPluginCall ==
    [event |-> "none", ret |-> 0, sim_time |-> 0, handed |-> <<>>, sent |-> <<>>,
     system |-> <<TRUE, TRUE>>, edit |-> NoEdit]

(* The plugin is loaded and XPluginStart has not been called *)
PluginIdle ==
    /\ g_state = NoPlugin
    /\ field_values = NoFields
    /\ registered = FALSE
    /\ pluginCall = NoPluginCall
    /\ pluginLog = NoPluginLog

----------------------------------------------------------------------------
(* The legacy plugin of xp2gdl90.cpp.  Times are whole seconds of          *)
(* XPLMGetElapsedTime, latitudes and longitudes millionths of a degree,    *)
(* altitudes metres.  Of a traffic target the model keeps the fields that  *)
(* decide whether it is reported.                                          *)

DATA_FRESH_THRESHOLD == 2

DATA_TIMEOUT_THRESHOLD == 30

(* 0.00001 degrees, in millionths of a degree *)
PositionThreshold == 10

(* 1.0 metres *)
AltitudeThreshold == 1

fabs(x) == IF x < 0 THEN -x ELSE x

(* One entry of traffic_targets as the loop of XPluginStart leaves it *)
InitialTarget(i) ==
    [plane_id |-> i + 1, last_update |-> 0, last_data_update |-> 0,
     active |-> FALSE, is_extrapolated |-> FALSE]

(* The statics of flight_loop_callback before its first call *)
NoLoop ==
    [last_heartbeat |-> 0, last_position |-> 0, last_traffic |-> 0,
     imgui_initialized |-> FALSE]

(* socket() then setsockopt(SO_BROADCAST): the socket stays in udp_socket *)
(* when setsockopt fails                                                  *)
init_network(socket_ok, setsockopt_ok) ==
    [ret |-> socket_ok /\ setsockopt_ok, udp_socket |-> socket_ok]

(* Whether send_gdl90_message passes its message to sendto *)
send_gdl90_message(socket, broadcast) == socket /\ broadcast

(* speed, track and vertical speed of the target in the TCAS arrays all 0.0 *)
NoActivity(r) == r.speed = 0 /\ r.track = 0 /\ r.vs = 0

(* updated, as the body of the loop of update_traffic_targets computes it *)
PositionRead(r) ==
    \/ fabs(r.lat) > PositionThreshold
    \/ fabs(r.lon) > PositionThreshold
    \/ fabs(r.alt) > AltitudeThreshold

(* Mutation: a target without activity is processed like any other *)
UpdateTarget_noSkip(target, r, current_time) ==
    IF PositionRead(r)
    THEN [target EXCEPT !.last_update = current_time,
                        !.last_data_update = current_time,
                        !.active = TRUE,
                        !.is_extrapolated = FALSE]
    ELSE [target EXCEPT
            !.is_extrapolated = (current_time - target.last_data_update > DATA_FRESH_THRESHOLD),
            !.active = IF current_time - target.last_update > DATA_TIMEOUT_THRESHOLD
                       THEN FALSE ELSE @]

(* Mutation: a target is inactive from the timeout on, not after it *)
UpdateTarget_timeoutAt(target, r, current_time) ==
    IF NoActivity(r) THEN [target EXCEPT !.active = FALSE]
    ELSE IF PositionRead(r)
    THEN [target EXCEPT !.last_update = current_time,
                        !.last_data_update = current_time,
                        !.active = TRUE,
                        !.is_extrapolated = FALSE]
    ELSE [target EXCEPT
            !.is_extrapolated = (current_time - target.last_data_update > DATA_FRESH_THRESHOLD),
            !.active = IF current_time - target.last_update >= DATA_TIMEOUT_THRESHOLD
                       THEN FALSE ELSE @]

(* Mutation: a target that was read is not made active *)
UpdateTarget_noRevive(target, r, current_time) ==
    IF NoActivity(r) THEN [target EXCEPT !.active = FALSE]
    ELSE IF PositionRead(r)
    THEN [target EXCEPT !.last_update = current_time,
                        !.last_data_update = current_time,
                        !.is_extrapolated = FALSE]
    ELSE [target EXCEPT
            !.is_extrapolated = (current_time - target.last_data_update > DATA_FRESH_THRESHOLD),
            !.active = IF current_time - target.last_update > DATA_TIMEOUT_THRESHOLD
                       THEN FALSE ELSE @]

(* One pass of the loop of update_traffic_targets, for a plane_id below 64 *)
UpdateTarget(target, r, current_time) ==
    IF NoActivity(r) THEN [target EXCEPT !.active = FALSE]
    ELSE IF PositionRead(r)
    THEN [target EXCEPT !.last_update = current_time,
                        !.last_data_update = current_time,
                        !.active = TRUE,
                        !.is_extrapolated = FALSE]
    ELSE [target EXCEPT
            !.is_extrapolated = (current_time - target.last_data_update > DATA_FRESH_THRESHOLD),
            !.active = IF current_time - target.last_update > DATA_TIMEOUT_THRESHOLD
                       THEN FALSE ELSE @]

update_traffic_targets(enabled, targets, tcas, current_time) ==
    IF ~enabled THEN targets
    ELSE [i \in DOMAIN targets |-> UpdateTarget(targets[i], tcas[i], current_time)]

(* Mutation: a report for every target *)
TrafficReports_all(targets) ==
    [i \in DOMAIN targets |-> <<"traffic", targets[i].plane_id>>]

(* The traffic reports of one cycle, in the order of traffic_targets *)
TrafficReports(targets) ==
    LET active == SelectSeq([i \in DOMAIN targets |-> targets[i]], LAMBDA t : t.active)
    IN  [k \in DOMAIN active |-> <<"traffic", active[k].plane_id>>]

(* flight_loop_callback: what it leaves in traffic_targets and its statics, *)
(* and the messages it hands to send_gdl90_message                          *)
flight_loop_callback(enabled, targets, statics, tcas, current_time, ui_ok) ==
    LET updated == IF enabled
                   THEN update_traffic_targets(enabled, targets, tcas, current_time)
                   ELSE targets
        heartbeat_due == current_time - statics.last_heartbeat >= 1
        position_due == 2 * (current_time - statics.last_position) >= 1
        traffic_due == enabled /\ 2 * (current_time - statics.last_traffic) >= 1
    IN  [traffic_targets |-> updated,
         statics |-> [last_heartbeat |-> IF heartbeat_due THEN current_time
                                      ELSE statics.last_heartbeat,
                   last_position |-> IF position_due THEN current_time
                                     ELSE statics.last_position,
                   last_traffic |-> IF traffic_due THEN current_time
                                    ELSE statics.last_traffic,
                   imgui_initialized |->
                       \/ statics.imgui_initialized
                       \/ (current_time > 5 /\ ui_ok)],
         handed |-> (IF heartbeat_due THEN <<<<"heartbeat", 0>>>> ELSE <<>>)
                    \o (IF position_due THEN <<<<"position", 0>>>> ELSE <<>>)
                    \o (IF traffic_due THEN TrafficReports(updated) ELSE <<>>)]

(* imgui_config_callback: the switches taken over, the socket made anew *)
imgui_config_callback(broadcast, traffic_on, socket_ok, setsockopt_ok) ==
    [broadcast_enabled |-> broadcast,
     enable_traffic |-> traffic_on,
     udp_socket |-> init_network(socket_ok, setsockopt_ok).udp_socket]

(* Entries of traffic_targets.  The plugin makes MAX_TRAFFIC_TARGETS = 63. *)
NumTargets == 2

(* What the TCAS datarefs show of one target in one cycle *)
Absent == [speed |-> 0, track |-> 0, vs |-> 0, lat |-> 0, lon |-> 0, alt |-> 0]

(* A position, and speed, track and vertical speed all 0.0 *)
Parked == [Absent EXCEPT !.lat = 47000000, !.lon = 8000000, !.alt = 400]

(* Activity, and no position *)
Silent == [Absent EXCEPT !.speed = 100, !.track = 90]

(* Activity, and a position whose magnitudes are the thresholds *)
AtThresholds == [Absent EXCEPT !.vs = -500, !.lat = 10, !.lon = -10, !.alt = -1]

(* Activity, and a position *)
Flying == [Absent EXCEPT !.speed = 100, !.lon = 11]

Banking == [Absent EXCEPT !.track = 90, !.lat = -11]

Sinking == [Absent EXCEPT !.vs = -500, !.alt = 2]

TargetReadings ==
    {Absent, Parked, Silent, AtThresholds, Flying,
     Banking, Sinking}

(* What the TCAS datarefs show of all targets in one cycle: each reading *)
(* for the first target, beside an absent, a silent or a flying second   *)
TcasReadings ==
    {[i \in 1..NumTargets |-> IF i = 1 THEN pair[1] ELSE pair[2]] :
        pair \in {<<Absent, Flying>>, <<Parked, Silent>>, <<Silent, Absent>>,
                  <<AtThresholds, Flying>>, <<Flying, Silent>>, <<Flying, Flying>>,
                  <<Banking, Absent>>, <<Sinking, Silent>>, <<Silent, Silent>>}}

(* Nothing read yet *)
NoTcas == [i \in 1..NumTargets |-> Absent]

(* Readings of XPLMGetElapsedTime: 2 s and 30 s after an update at 1 s, *)
(* and the seconds that follow them                                     *)
ElapsedTimes == {1, 3, 4, 31, 32}

(* No call of flight_loop_callback made *)
NoLoopCall == [handed |-> <<>>, sendto |-> FALSE]

(* The legacy plugin is loaded and XPluginStart has not been called *)
TrafficIdle ==
    /\ enable_traffic = TRUE
    /\ broadcast_enabled = TRUE
    /\ udp_socket = FALSE
    /\ traffic_targets = <<>>
    /\ loop_statics = NoLoop
    /\ xplane = [lifecycle |-> "loaded", elapsed |-> 0, tcas |-> NoTcas]
    /\ loopCall = NoLoopCall

----------------------------------------------------------------------------
(* The caller.  op is the family of calls made since the last results      *)
(* were dropped; overflow is what the build does on signed overflow.       *)

(* No call of the encoder made, on a build whose signed overflow wraps *)
CallerIdle ==
    /\ op = "none"
    /\ overflow = "wrap"
    /\ data = ZeroPosition
    /\ ownship = <<>>
    /\ traffic = <<>>
    /\ hbArgs = [gps_valid |-> FALSE, utc_ok |-> FALSE, tm |-> Midnight, timestamp |-> 0]
    /\ heartbeat = <<>>
    /\ raw = <<>>
    /\ escaped = <<>>
    /\ crc = 0
    /\ arg = 0
    /\ code = 0

Init ==
    /\ op = "none"
    /\ overflow \in SignedOverflowOutcomes
    /\ data = ZeroPosition
    /\ ownship = <<>>
    /\ traffic = <<>>
    /\ hbArgs = [gps_valid |-> FALSE, utc_ok |-> FALSE, tm |-> Midnight, timestamp |-> 0]
    /\ heartbeat = <<>>
    /\ raw = <<>>
    /\ escaped = <<>>
    /\ crc = 0
    /\ arg = 0
    /\ code = 0
    /\ clock = 0
    /\ tmStorage = "static"
    /\ ThreadsIdle
    /\ ConfigIdle
    /\ UdpIdle
    /\ PluginIdle
    /\ TrafficIdle

ConstructPosition(d) ==
    /\ op = "none"
    /\ op' = "position"
    /\ data' = d
    /\ UNCHANGED <<overflow, ownship, traffic, hbArgs, heartbeat, raw, escaped, crc, arg, code>>
    /\ UNCHANGED nonCallerVars

CreateOwnshipReport ==
    /\ op = "position"
    /\ ownship = <<>>
    /\ ownship' = createOwnshipReport(data, overflow)
    /\ UNCHANGED <<op, overflow, data, traffic, hbArgs, heartbeat, raw, escaped, crc, arg, code>>
    /\ UNCHANGED nonCallerVars

CreateTrafficReport ==
    /\ op = "position"
    /\ traffic = <<>>
    /\ traffic' = createTrafficReport(data, overflow)
    /\ UNCHANGED <<op, overflow, data, ownship, hbArgs, heartbeat, raw, escaped, crc, arg, code>>
    /\ UNCHANGED nonCallerVars

CreateHeartbeat(gps_valid, utc_ok, tm) ==
    /\ op = "none"
    /\ op' = "heartbeat"
    /\ hbArgs' = [gps_valid |-> gps_valid, utc_ok |-> utc_ok, tm |-> tm,
                  timestamp |-> getUTCTime(tm)]
    /\ heartbeat' = createHeartbeat(gps_valid, utc_ok, getUTCTime(tm))
    /\ UNCHANGED <<overflow, data, ownship, traffic, raw, escaped, crc, arg, code>>
    /\ UNCHANGED nonCallerVars

EscapeMessage(bytes) ==
    /\ op = "none"
    /\ op' = "escapeMessage"
    /\ raw' = bytes
    /\ escaped' = escapeMessage(bytes)
    /\ UNCHANGED <<overflow, data, ownship, traffic, hbArgs, heartbeat, crc, arg, code>>
    /\ UNCHANGED nonCallerVars

CalculateCRC(bytes) ==
    /\ op = "none"
    /\ op' = "calculateCRC"
    /\ raw' = bytes
    /\ crc' = calculateCRC(bytes)
    /\ UNCHANGED <<overflow, data, ownship, traffic, hbArgs, heartbeat, escaped, arg, code>>
    /\ UNCHANGED nonCallerVars

EncodeAltitude(altitude) ==
    /\ op = "none"
    /\ op' = "encodeAltitude"
    /\ arg' = altitude
    /\ code' = encodeAltitude(altitude, overflow)
    /\ UNCHANGED <<overflow, data, ownship, traffic, hbArgs, heartbeat, raw, escaped, crc>>
    /\ UNCHANGED nonCallerVars

EncodeVerticalVelocity(vv_fpm) ==
    /\ op = "none"
    /\ op' = "encodeVerticalVelocity"
    /\ arg' = vv_fpm
    /\ code' = encodeVerticalVelocity(vv_fpm)
    /\ UNCHANGED <<overflow, data, ownship, traffic, hbArgs, heartbeat, raw, escaped, crc>>
    /\ UNCHANGED nonCallerVars

EncodeLatitude(latitude) ==
    /\ op = "none"
    /\ op' = "encodeLatitude"
    /\ arg' = latitude
    /\ code' = encodeLatitude(latitude)
    /\ UNCHANGED <<overflow, data, ownship, traffic, hbArgs, heartbeat, raw, escaped, crc>>
    /\ UNCHANGED nonCallerVars

EncodeLongitude(longitude) ==
    /\ op = "none"
    /\ op' = "encodeLongitude"
    /\ arg' = longitude
    /\ code' = encodeLongitude(longitude)
    /\ UNCHANGED <<overflow, data, ownship, traffic, hbArgs, heartbeat, raw, escaped, crc>>
    /\ UNCHANGED nonCallerVars

EncodeTrack(track) ==
    /\ op = "none"
    /\ op' = "encodeTrack"
    /\ arg' = track
    /\ code' = encodeTrack(track)
    /\ UNCHANGED <<overflow, data, ownship, traffic, hbArgs, heartbeat, raw, escaped, crc>>
    /\ UNCHANGED nonCallerVars

(* The caller drops the results and starts over *)
Discard ==
    /\ op # "none"
    /\ op' = "none"
    /\ data' = ZeroPosition
    /\ ownship' = <<>>
    /\ traffic' = <<>>
    /\ hbArgs' = [gps_valid |-> FALSE, utc_ok |-> FALSE, tm |-> Midnight, timestamp |-> 0]
    /\ heartbeat' = <<>>
    /\ raw' = <<>>
    /\ escaped' = <<>>
    /\ crc' = 0
    /\ arg' = 0
    /\ code' = 0
    /\ UNCHANGED overflow
    /\ UNCHANGED nonCallerVars

Next ==
    \/ \E d \in PositionInputs : ConstructPosition(d)
    \/ CreateOwnshipReport
    \/ CreateTrafficReport
    \/ \E g \in BOOLEAN, u \in BOOLEAN, tm \in ClockReadings : CreateHeartbeat(g, u, tm)
    \/ \E bytes \in RawInputs : EscapeMessage(bytes)
    \/ \E bytes \in RawInputs : CalculateCRC(bytes)
    \/ \E a \in AltitudeInputs : EncodeAltitude(a)
    \/ \E v \in VerticalVelocityInputs : EncodeVerticalVelocity(v)
    \/ \E lat \in LatitudeInputs : EncodeLatitude(lat)
    \/ \E lon \in LongitudeInputs : EncodeLongitude(lon)
    \/ \E t \in TrackInputs : EncodeTrack(t)
    \/ Discard

Spec == Init /\ [][Next]_vars

----------------------------------------------------------------------------
(* Several threads share one encoder.  A call of createHeartbeat is the    *)
(* steps of getUTCTime followed by the construction of the frame; a call   *)
(* of createOwnshipReport or createTrafficReport touches nothing but its   *)
(* argument, its locals and the constant CRC table, and is one step.       *)

InitThreads ==
    /\ op = "none"
    /\ overflow \in SignedOverflowOutcomes
    /\ data = ZeroPosition
    /\ ownship = <<>>
    /\ traffic = <<>>
    /\ hbArgs = [gps_valid |-> FALSE, utc_ok |-> FALSE, tm |-> Midnight, timestamp |-> 0]
    /\ heartbeat = <<>>
    /\ raw = <<>>
    /\ escaped = <<>>
    /\ crc = 0
    /\ arg = 0
    /\ code = 0
    /\ clock \in ClockStarts
    /\ tmStorage \in GmtimeStorages
    /\ ThreadsIdle
    /\ ConfigIdle
    /\ UdpIdle
    /\ PluginIdle
    /\ TrafficIdle

(* The wall clock moves on *)
Tick ==
    /\ clock + 1 \in ClockValues
    /\ clock' = clock + 1
    /\ UNCHANGED <<tmStorage, tmBuf, pc, call, now, tmRead, result>>
    /\ UNCHANGED nonThreadVars

CallHeartbeat(t, gps_valid, utc_ok) ==
    /\ pc[t] = "idle"
    /\ call' = [call EXCEPT ![t] = [kind |-> "heartbeat", gps_valid |-> gps_valid,
                                    utc_ok |-> utc_ok, data |-> ZeroPosition]]
    /\ pc' = [pc EXCEPT ![t] = "time"]
    /\ UNCHANGED <<clock, tmStorage, tmBuf, now, tmRead, result>>
    /\ UNCHANGED nonThreadVars

(* std::time_t now = std::time(nullptr) *)
Time(t) ==
    /\ pc[t] = "time"
    /\ now' = [now EXCEPT ![t] = clock]
    /\ pc' = [pc EXCEPT ![t] = "gmtime"]
    /\ UNCHANGED <<clock, tmStorage, tmBuf, call, tmRead, result>>
    /\ UNCHANGED nonThreadVars

(* std::tm* utc = std::gmtime(&now) *)
Gmtime(t) ==
    /\ pc[t] = "gmtime"
    /\ tmBuf' = [tmBuf EXCEPT ![BufOf(t)] = gmtime(now[t])]
    /\ pc' = [pc EXCEPT ![t] = "read"]
    /\ UNCHANGED <<clock, tmStorage, call, now, tmRead, result>>
    /\ UNCHANGED nonThreadVars

(* One of utc->tm_hour, utc->tm_min, utc->tm_sec is read; the operands of  *)
(* the sum are evaluated in no fixed order.                                *)
ReadTm(t, field) ==
    /\ pc[t] = "read"
    /\ tmRead[t][field] = -1
    /\ tmRead' = [tmRead EXCEPT ![t][field] = tmBuf[BufOf(t)][field]]
    /\ pc' = [pc EXCEPT ![t] =
                IF \A g \in TmFields \ {field} : tmRead[t][g] # -1
                    THEN "build" ELSE "read"]
    /\ UNCHANGED <<clock, tmStorage, tmBuf, call, now, result>>
    /\ UNCHANGED nonThreadVars

(* The rest of createHeartbeat, with the timestamp getUTCTime returns *)
BuildHeartbeat(t) ==
    /\ pc[t] = "build"
    /\ result' = [result EXCEPT ![t] =
                    createHeartbeat(call[t].gps_valid, call[t].utc_ok,
                                    getUTCTime(tmRead[t]))]
    /\ pc' = [pc EXCEPT ![t] = "done"]
    /\ UNCHANGED <<clock, tmStorage, tmBuf, call, now, tmRead>>
    /\ UNCHANGED nonThreadVars

CallOwnshipReport(t, d) ==
    /\ pc[t] = "idle"
    /\ call' = [call EXCEPT ![t] = [kind |-> "ownship", gps_valid |-> FALSE,
                                    utc_ok |-> FALSE, data |-> d]]
    /\ result' = [result EXCEPT ![t] = createOwnshipReport(d, overflow)]
    /\ pc' = [pc EXCEPT ![t] = "done"]
    /\ UNCHANGED <<clock, tmStorage, tmBuf, now, tmRead>>
    /\ UNCHANGED nonThreadVars

CallTrafficReport(t, d) ==
    /\ pc[t] = "idle"
    /\ call' = [call EXCEPT ![t] = [kind |-> "traffic", gps_valid |-> FALSE,
                                    utc_ok |-> FALSE, data |-> d]]
    /\ result' = [result EXCEPT ![t] = createTrafficReport(d, overflow)]
    /\ pc' = [pc EXCEPT ![t] = "done"]
    /\ UNCHANGED <<clock, tmStorage, tmBuf, now, tmRead>>
    /\ UNCHANGED nonThreadVars

(* The thread takes the frame and is free for its next call *)
Return(t) ==
    /\ pc[t] = "done"
    /\ pc' = [pc EXCEPT ![t] = "idle"]
    /\ call' = [call EXCEPT ![t] = NoCall]
    /\ now' = [now EXCEPT ![t] = 0]
    /\ tmRead' = [tmRead EXCEPT ![t] = NoneRead]
    /\ result' = [result EXCEPT ![t] = <<>>]
    /\ UNCHANGED <<clock, tmStorage, tmBuf>>
    /\ UNCHANGED nonThreadVars

NextThreads ==
    \/ Tick
    \/ \E t \in Threads, g \in BOOLEAN, u \in BOOLEAN : CallHeartbeat(t, g, u)
    \/ \E t \in Threads : Time(t)
    \/ \E t \in Threads : Gmtime(t)
    \/ \E t \in Threads, field \in TmFields : ReadTm(t, field)
    \/ \E t \in Threads : BuildHeartbeat(t)
    \/ \E t \in Threads, d \in ThreadPositions : CallOwnshipReport(t, d)
    \/ \E t \in Threads, d \in ThreadPositions : CallTrafficReport(t, d)
    \/ \E t \in Threads : Return(t)

SpecThreads == InitThreads /\ [][NextThreads]_vars

----------------------------------------------------------------------------
(* One ConfigManager and one configuration file.  cfgCall is the last      *)
(* operation on the manager, its result, the configuration it found, and   *)
(* the number of calls of load and save since the manager was constructed. *)
(* The owner fills in a manager right after constructing it, and the file  *)
(* is edited by hand while the manager is new.                             *)

InitConfig ==
    /\ CallerIdle
    /\ clock = 0
    /\ tmStorage = "static"
    /\ ThreadsIdle
    /\ ConfigIdle
    /\ UdpIdle
    /\ PluginIdle
    /\ TrafficIdle

(* ConfigManager(): a new manager takes the place of the old one *)
ConstructManager ==
    /\ cfgCall.op # "construct"
    /\ config_' = DefaultConfig
    /\ last_error_' = ""
    /\ cfgCall' = [op |-> "construct", ret |-> TRUE, before |-> DefaultConfig, calls |-> 0]
    /\ UNCHANGED disk
    /\ UNCHANGED nonConfigVars

(* The owner assigns through the reference that getConfig() returns *)
SetConfig(c) ==
    /\ cfgCall.op = "construct"
    /\ config_' = c
    /\ cfgCall' = [op |-> "set", ret |-> TRUE, before |-> c, calls |-> 0]
    /\ UNCHANGED <<last_error_, disk>>
    /\ UNCHANGED nonConfigVars

(* Somebody writes the file by hand *)
WriteFile(f) ==
    /\ cfgCall.op = "construct"
    /\ disk' = f
    /\ UNCHANGED <<config_, last_error_, cfgCall>>
    /\ UNCHANGED nonConfigVars

RemoveFile ==
    /\ cfgCall.op = "construct"
    /\ disk # NoFile
    /\ disk' = NoFile
    /\ UNCHANGED <<config_, last_error_, cfgCall>>
    /\ UNCHANGED nonConfigVars

Load ==
    LET r == load(config_, last_error_, disk)
    IN /\ cfgCall.calls < MaxCalls
       /\ config_' = r.config_
       /\ last_error_' = r.last_error_
       /\ cfgCall' = [op |-> IF cfgCall.op = "construct" THEN "first load" ELSE "load",
                      ret |-> r.ret, before |-> config_, calls |-> cfgCall.calls + 1]
       /\ UNCHANGED disk
       /\ UNCHANGED nonConfigVars

Save(writable) ==
    LET r == save(config_, last_error_, disk, writable)
    IN /\ cfgCall.calls < MaxCalls
       /\ disk' = r.file
       /\ last_error_' = r.last_error_
       /\ cfgCall' = [op |-> "save", ret |-> r.ret, before |-> config_,
                      calls |-> cfgCall.calls + 1]
       /\ UNCHANGED config_
       /\ UNCHANGED nonConfigVars

NextConfig ==
    \/ ConstructManager
    \/ \E c \in ConfigInputs : SetConfig(c)
    \/ \E f \in FileInputs : WriteFile(f)
    \/ RemoveFile
    \/ Load
    \/ \E writable \in BOOLEAN : Save(writable)

SpecConfig == InitConfig /\ [][NextConfig]_vars

----------------------------------------------------------------------------
(* One UDPBroadcaster at a time.  udpCall is the last call: its result,    *)
(* the broadcaster and the sockets it found, the datagrams it sent and     *)
(* what the system calls answered.                                         *)

InitUdp ==
    /\ CallerIdle
    /\ clock = 0
    /\ tmStorage = "static"
    /\ ThreadsIdle
    /\ ConfigIdle
    /\ UdpIdle
    /\ PluginIdle
    /\ TrafficIdle

UdpConstruct(target_ip, target_port) ==
    /\ ~bcast.alive
    /\ bcast' = UDPBroadcaster(target_ip, target_port)
    /\ udpCall' = [NoUdpCall EXCEPT !.op = "construct", !.kernelBefore = kernel]
    /\ UNCHANGED kernel
    /\ UNCHANGED nonUdpVars

UdpInitialize(socket_ok, setsockopt_ok) ==
    LET r == initialize(bcast, kernel, socket_ok, setsockopt_ok)
    IN /\ bcast.alive
       /\ Len(r.k) <= MaxSockets
       /\ bcast' = r.b
       /\ kernel' = r.k
       /\ udpCall' = [op |-> "initialize", ret |-> IF r.ret THEN 1 ELSE 0, before |-> bcast,
                      kernelBefore |-> kernel, sent |-> <<>>,
                      system |-> <<socket_ok, setsockopt_ok>>]
       /\ UNCHANGED nonUdpVars

UdpSend(bytes, sendto_ok) ==
    LET r == send(bcast, bytes, sendto_ok)
    IN /\ bcast.alive
       /\ bcast' = r.b
       /\ udpCall' = [op |-> "send", ret |-> r.ret, before |-> bcast, kernelBefore |-> kernel,
                      sent |-> r.sent, system |-> <<sendto_ok, TRUE>>]
       /\ UNCHANGED kernel
       /\ UNCHANGED nonUdpVars

UdpClose ==
    LET r == close(bcast, kernel)
    IN /\ bcast.alive
       /\ bcast' = r.b
       /\ kernel' = r.k
       /\ udpCall' = [NoUdpCall EXCEPT !.op = "close", !.before = bcast,
                                       !.kernelBefore = kernel]
       /\ UNCHANGED nonUdpVars

(* ~UDPBroadcaster(): close(), and the object is gone *)
UdpDestroy ==
    LET r == close(bcast, kernel)
    IN /\ bcast.alive
       /\ bcast' = NoBroadcaster
       /\ kernel' = r.k
       /\ udpCall' = [NoUdpCall EXCEPT !.op = "destroy", !.before = bcast,
                                       !.kernelBefore = kernel]
       /\ UNCHANGED nonUdpVars

NextUdp ==
    \/ \E ip \in ValidIps \cup InvalidIps, port \in UdpPortInputs : UdpConstruct(ip, port)
    \/ \E socket_ok \in BOOLEAN, setsockopt_ok \in BOOLEAN :
           UdpInitialize(socket_ok, setsockopt_ok)
    \/ \E bytes \in DatagramInputs, sendto_ok \in BOOLEAN : UdpSend(bytes, sendto_ok)
    \/ UdpClose
    \/ UdpDestroy

SpecUdp == InitUdp /\ [][NextUdp]_vars

----------------------------------------------------------------------------
(* The plugin in X-Plane.  pluginCall is the last event: its result, the   *)
(* messages it handed to the broadcaster, the datagrams that left, and     *)
(* what it found.  pluginLog is kept from the events alone: the sim time   *)
(* of the last heartbeat and of the last callback that ran since           *)
(* XPluginStart (-1 for none), the sim time between the last heartbeat and *)
(* the one before it, whether XPluginDisable was called and no             *)
(* XPluginEnable succeeded since, the number of fields typed into since    *)
(* the window last showed the configuration, and the number of calls of    *)
(* XPluginStart.  After a crash of the process there are no events.        *)

InitPlugin ==
    /\ CallerIdle
    /\ clock = 0
    /\ tmStorage = "static"
    /\ ThreadsIdle
    /\ UdpIdle
    /\ PluginIdle
    /\ TrafficIdle
    /\ config_ = DefaultConfig
    /\ last_error_ = ""
    /\ cfgCall = [op |-> "construct", ret |-> TRUE, before |-> DefaultConfig, calls |-> 0]
    /\ disk \in PluginFiles

Running == pluginCall.event # "crash"

(* A member of an object that is not there is read: the process ends *)
Crash ==
    /\ pluginCall' = [NoPluginCall EXCEPT !.event = "crash"]
    /\ UNCHANGED <<g_state, field_values, registered, pluginLog>>
    /\ UNCHANGED <<config_, last_error_, disk, bcast, kernel>>

(* X-Plane calls XPluginStart; the system decides whether the file can be  *)
(* written, whether socket() and setsockopt() succeed and whether the      *)
(* datarefs are found.                                                     *)
Start ==
    /\ Running
    /\ pluginLog.starts < MaxStarts
    /\ \E loaded \in {load(DefaultConfig, "", disk)} :
       \E writable \in BOOLEAN, socket_ok \in BOOLEAN, setsockopt_ok \in BOOLEAN,
          datarefs_ok \in BOOLEAN :
       \E r \in {XPluginStart(g_state, loaded, disk, bcast, kernel, writable,
                              socket_ok, setsockopt_ok, datarefs_ok)} :
           /\ Len(r.k) <= MaxSockets
           /\ g_state' = r.g
           /\ config_' = r.config_
           /\ last_error_' = r.last_error_
           /\ disk' = r.disk
           /\ bcast' = r.b
           /\ kernel' = r.k
           /\ pluginCall' = [NoPluginCall EXCEPT
                                !.event = "start", !.ret = r.ret,
                                !.system = <<socket_ok, setsockopt_ok>>]
    /\ pluginLog' = [pluginLog EXCEPT !.prevHeartbeat = -1, !.prevCallback = -1,
                                     !.gap = -1, !.starts = @ + 1]
    /\ UNCHANGED <<field_values, registered>>
    /\ UNCHANGED <<callerVars, threadVars, cfgCall, udpCall, trafficVars>>

Stop ==
    LET r == XPluginStop(g_state, bcast, kernel)
    IN /\ Running
       /\ g_state' = r.g
       /\ bcast' = r.b
       /\ kernel' = r.k
       /\ config_' = DefaultConfig
       /\ last_error_' = ""
       /\ registered' = IF r.unregisters THEN FALSE ELSE registered
       /\ pluginCall' = [NoPluginCall EXCEPT !.event = "stop"]
       /\ UNCHANGED <<field_values, pluginLog, disk>>
       /\ UNCHANGED <<callerVars, threadVars, cfgCall, udpCall, trafficVars>>

Enable ==
    LET r == XPluginEnable(g_state)
    IN /\ Running
       /\ g_state' = r.g
       /\ registered' = IF r.registers THEN TRUE ELSE registered
       /\ pluginCall' = [NoPluginCall EXCEPT !.event = "enable", !.ret = r.ret]
       /\ pluginLog' = [pluginLog EXCEPT !.disabled = IF r.ret = 1 THEN FALSE ELSE @]
       /\ UNCHANGED field_values
       /\ UNCHANGED <<config_, last_error_, disk, bcast, kernel>>
       /\ UNCHANGED <<callerVars, threadVars, cfgCall, udpCall, trafficVars>>

Disable ==
    /\ Running
    /\ g_state' = XPluginDisable(g_state)
    /\ registered' = FALSE
    /\ pluginCall' = [NoPluginCall EXCEPT !.event = "disable"]
    /\ pluginLog' = [pluginLog EXCEPT !.disabled = TRUE]
    /\ UNCHANGED field_values
    /\ UNCHANGED <<config_, last_error_, disk, bcast, kernel>>
    /\ UNCHANGED <<callerVars, threadVars, cfgCall, udpCall, trafficVars>>

(* MenuHandlerCallback, "Enable Broadcasting" *)
MenuToggle ==
    /\ Running
    /\ g_state.menu
    /\ g_state' = IF g_state.enabled THEN XPluginDisable(g_state)
                  ELSE XPluginEnable(g_state).g
    /\ registered' = IF g_state.enabled THEN FALSE
                     ELSE IF XPluginEnable(g_state).registers THEN TRUE ELSE registered
    /\ pluginCall' = [NoPluginCall EXCEPT !.event = "menu toggle"]
    /\ pluginLog' = [pluginLog EXCEPT !.disabled =
                        IF g_state.enabled THEN TRUE
                        ELSE IF XPluginEnable(g_state).ret = 1 THEN FALSE ELSE @]
    /\ UNCHANGED field_values
    /\ UNCHANGED <<config_, last_error_, disk, bcast, kernel>>
    /\ UNCHANGED <<callerVars, threadVars, cfgCall, udpCall, trafficVars>>

IsHeartbeat(bytes) == Len(bytes) >= 2 /\ bytes[2] = MSG_ID_HEARTBEAT

IsOwnshipReport(bytes) == Len(bytes) >= 2 /\ bytes[2] = MSG_ID_OWNSHIP_REPORT

HasHeartbeat(handed) == \E i \in 1..Len(handed) : IsHeartbeat(handed[i])

(* X-Plane calls the registered callback; sim_time is what the dataref     *)
(* reads, which starts again at 0 when the flight is reset.                *)
FlightLoop(sim_time, sendto_ok) ==
    LET r == FlightLoopCallback(g_state, config_, bcast, sim_time,
                                getUTCTime(gmtime(clock)), FlightData, sendto_ok)
        ran == g_state.enabled /\ g_state.initialized
    IN /\ Running
       /\ registered
       /\ IF ran /\ ~g_state.objects
          THEN /\ Crash
               /\ UNCHANGED <<callerVars, threadVars, cfgCall, udpCall, trafficVars>>
          ELSE /\ g_state' = r.g
               /\ bcast' = r.b
               /\ pluginCall' = [NoPluginCall EXCEPT !.event = "flight loop", !.ret = -1,
                                                    !.sim_time = sim_time,
                                                    !.handed = r.handed,
                                                    !.sent = r.sent,
                                                    !.system = <<sendto_ok, TRUE>>]
               /\ pluginLog' = [pluginLog EXCEPT
                                   !.prevHeartbeat = IF HasHeartbeat(r.handed)
                                                     THEN sim_time ELSE @,
                                   !.prevCallback = IF ran THEN sim_time ELSE @,
                                   !.gap = IF /\ HasHeartbeat(r.handed)
                                              /\ pluginLog.prevHeartbeat # -1
                                           THEN sim_time - pluginLog.prevHeartbeat
                                           ELSE @]
               /\ UNCHANGED <<field_values, registered>>
               /\ UNCHANGED <<config_, last_error_, disk, kernel>>
               /\ UNCHANGED <<callerVars, threadVars, cfgCall, udpCall, trafficVars>>

NextPlugin ==
    \/ Start
    \/ Stop
    \/ Enable
    \/ Disable
    \/ MenuToggle
    \/ \E sim_time \in SimTimes, sendto_ok \in BOOLEAN : FlightLoop(sim_time, sendto_ok)

SpecPlugin == InitPlugin /\ [][NextPlugin]_vars

----------------------------------------------------------------------------
(* The settings window and the menu of the plugin.  A click on Apply or on *)
(* Save comes with what the user typed into one field, or with nothing.    *)

(* MenuHandlerCallback, "Settings..." *)
OpenSettings ==
    LET r == ShowSettingsWindow(g_state, field_values, config_, ~g_state.window_visible)
    IN /\ Running
       /\ g_state.menu
       /\ g_state' = r.g
       /\ field_values' = r.fields
       /\ pluginCall' = [NoPluginCall EXCEPT !.event = "settings"]
       /\ pluginLog' = [pluginLog EXCEPT !.edits = IF r.g.window = "shown" THEN 0 ELSE @]
       /\ UNCHANGED registered
       /\ UNCHANGED <<config_, last_error_, disk, bcast, kernel>>
       /\ UNCHANGED <<callerVars, threadVars, cfgCall, udpCall, trafficVars>>

Clickable(edit) ==
    /\ Running
    /\ g_state.window = "shown"
    /\ pluginLog.clicks < MaxClicks
    /\ edit # NoEdit => pluginLog.edits < MaxEdits

Clicked(ret, edit) ==
    [pluginLog EXCEPT !.clicks = @ + 1,
                      !.edits = IF ret THEN 0 ELSE IF edit = NoEdit THEN @ ELSE @ + 1]

(* What socket() and setsockopt() answered to a click, when they were     *)
(* called                                                                  *)
Answered(parsed, socket_ok, setsockopt_ok) ==
    IF ~parsed.thrown /\ TargetChanged(config_, parsed.config)
    THEN <<socket_ok, setsockopt_ok>>
    ELSE <<TRUE, TRUE>>

(* HandleSettingsMouseClick on the Apply button *)
ClickApply(edit, socket_ok, setsockopt_ok) ==
    /\ Clickable(edit)
    /\ \E parsed \in {ApplyFields(Commit(field_values, edit), config_)} :
       \E r \in {ApplyFieldsToConfig(parsed, config_, bcast, kernel,
                                     socket_ok, setsockopt_ok)} :
           /\ Len(r.k) <= MaxSockets
           /\ config_' = r.config_
           /\ bcast' = r.b
           /\ kernel' = r.k
           /\ field_values' = IF r.ret THEN SyncFieldsFromConfig(r.config_)
                               ELSE Commit(field_values, edit)
           /\ pluginCall' = [NoPluginCall EXCEPT
                                !.event = "apply",
                                !.ret = IF r.ret THEN 1 ELSE 0,
                                !.system = Answered(parsed, socket_ok, setsockopt_ok),
                                !.edit = edit]
           /\ pluginLog' = Clicked(r.ret, edit)
    /\ UNCHANGED <<g_state, registered, last_error_, disk>>
    /\ UNCHANGED <<callerVars, threadVars, cfgCall, udpCall, trafficVars>>

(* HandleSettingsMouseClick on the Save button: SaveConfig after an Apply  *)
(* that succeeded                                                          *)
ClickSave(edit, writable, socket_ok, setsockopt_ok) ==
    /\ Clickable(edit)
    /\ \E parsed \in {ApplyFields(Commit(field_values, edit), config_)} :
       \E r \in {ApplyFieldsToConfig(parsed, config_, bcast, kernel,
                                     socket_ok, setsockopt_ok)} :
       \E saved \in {IF r.ret THEN save(r.config_, last_error_, disk, writable)
                     ELSE [ret |-> FALSE, file |-> disk, last_error_ |-> last_error_]} :
           /\ Len(r.k) <= MaxSockets
           /\ config_' = r.config_
           /\ bcast' = r.b
           /\ kernel' = r.k
           /\ disk' = saved.file
           /\ last_error_' = saved.last_error_
           /\ field_values' = IF r.ret THEN SyncFieldsFromConfig(r.config_)
                               ELSE Commit(field_values, edit)
           /\ pluginCall' = [NoPluginCall EXCEPT
                                !.event = "save",
                                !.ret = IF r.ret THEN 1 ELSE 0,
                                !.system = Answered(parsed, socket_ok, setsockopt_ok),
                                !.edit = edit]
           /\ pluginLog' = Clicked(r.ret, edit)
    /\ UNCHANGED <<g_state, registered>>
    /\ UNCHANGED <<callerVars, threadVars, cfgCall, udpCall, trafficVars>>

(* MenuHandlerCallback, "Reload Config" *)
MenuReload(socket_ok, setsockopt_ok) ==
    /\ Running
    /\ g_state.menu
    /\ pluginLog.clicks < MaxClicks
    /\ IF ~g_state.objects
       THEN /\ Crash
            /\ UNCHANGED <<callerVars, threadVars, cfgCall, udpCall, trafficVars>>
       ELSE /\ \E loaded \in {load(config_, last_error_, disk)} :
               \E r \in {ReloadConfigFromDisk(config_, loaded, field_values, bcast, kernel,
                                              socket_ok, setsockopt_ok)} :
                   /\ Len(r.k) <= MaxSockets
                   /\ config_' = r.config_
                   /\ last_error_' = r.last_error_
                   /\ bcast' = r.b
                   /\ kernel' = r.k
                   /\ field_values' = r.fields
                   /\ pluginCall' = [NoPluginCall EXCEPT
                                        !.event = "reload",
                                        !.ret = IF r.ret THEN 1 ELSE 0,
                                        !.system =
                                            IF /\ loaded.ret
                                               /\ TargetChanged(config_, loaded.config_)
                                            THEN <<socket_ok, setsockopt_ok>>
                                            ELSE <<TRUE, TRUE>>]
                   /\ pluginLog' = Clicked(r.ret, NoEdit)
            /\ UNCHANGED <<g_state, registered, disk>>
            /\ UNCHANGED <<callerVars, threadVars, cfgCall, udpCall, trafficVars>>

(* The user writes the configuration file with an editor, or removes it *)
EditFile(f) ==
    /\ Running
    /\ g_state.objects
    /\ pluginLog.clicks < MaxClicks
    /\ disk # f
    /\ disk' = f
    /\ pluginCall' = [NoPluginCall EXCEPT !.event = "file"]
    /\ UNCHANGED <<g_state, field_values, registered, pluginLog>>
    /\ UNCHANGED <<config_, last_error_, bcast, kernel>>
    /\ UNCHANGED <<callerVars, threadVars, cfgCall, udpCall, trafficVars>>

(* X-Plane loads the plugin and starts it once *)
StartOnce ==
    /\ pluginLog.starts = 0
    /\ Start

NextSettings ==
    \/ StartOnce
    \/ OpenSettings
    \/ \E edit \in ValidEdits \cup InvalidEdits \cup {NoEdit},
          socket_ok \in BOOLEAN, setsockopt_ok \in BOOLEAN :
           ClickApply(edit, socket_ok, setsockopt_ok)
    \/ \E edit \in ValidEdits \cup InvalidEdits \cup {NoEdit}, writable \in BOOLEAN,
          socket_ok \in BOOLEAN, setsockopt_ok \in BOOLEAN :
           ClickSave(edit, writable, socket_ok, setsockopt_ok)
    \/ \E socket_ok \in BOOLEAN, setsockopt_ok \in BOOLEAN :
           MenuReload(socket_ok, setsockopt_ok)
    \/ \E f \in SettingsFiles : EditFile(f)

SpecSettings == InitPlugin /\ [][NextSettings]_vars

----------------------------------------------------------------------------
(* The legacy plugin under X-Plane: XPluginStart once, XPluginEnable and   *)
(* XPluginDisable in turn, the flight loop while enabled, the              *)
(* configuration callback of the UI once the flight loop initialized it.   *)

InitTraffic ==
    /\ CallerIdle
    /\ clock = 0
    /\ tmStorage = "static"
    /\ ThreadsIdle
    /\ ConfigIdle
    /\ UdpIdle
    /\ PluginIdle
    /\ TrafficIdle

LegacyStart(socket_ok, setsockopt_ok) ==
    /\ xplane.lifecycle = "loaded"
    /\ LET net == init_network(socket_ok, setsockopt_ok)
       IN  /\ udp_socket' = net.udp_socket
           /\ traffic_targets' =
                IF net.ret /\ enable_traffic
                THEN [i \in 1..NumTargets |-> InitialTarget(i - 1)]
                ELSE traffic_targets
           /\ xplane' = [xplane EXCEPT !.lifecycle = IF net.ret THEN "disabled" ELSE "failed"]
           /\ UNCHANGED <<enable_traffic, broadcast_enabled, loop_statics, loopCall>>
    /\ UNCHANGED nonTrafficVars

LegacyEnable ==
    /\ xplane.lifecycle = "disabled"
    /\ xplane' = [xplane EXCEPT !.lifecycle = "enabled"]
    /\ UNCHANGED <<enable_traffic, broadcast_enabled, udp_socket, traffic_targets,
        loop_statics, loopCall>>
    /\ UNCHANGED nonTrafficVars

LegacyDisable ==
    /\ xplane.lifecycle = "enabled"
    /\ xplane' = [xplane EXCEPT !.lifecycle = "disabled"]
    /\ UNCHANGED <<enable_traffic, broadcast_enabled, udp_socket, traffic_targets,
        loop_statics, loopCall>>
    /\ UNCHANGED nonTrafficVars

LegacyStop ==
    /\ xplane.lifecycle = "disabled"
    /\ xplane' = [xplane EXCEPT !.lifecycle = "stopped"]
    /\ udp_socket' = FALSE
    /\ UNCHANGED <<enable_traffic, broadcast_enabled, traffic_targets, loop_statics, loopCall>>
    /\ UNCHANGED nonTrafficVars

LegacyFlightLoop(current_time, tcas, ui_ok) ==
    /\ xplane.lifecycle = "enabled"
    /\ current_time >= xplane.elapsed
    /\ LET r == flight_loop_callback(enable_traffic, traffic_targets, loop_statics, tcas,
                                     current_time, ui_ok)
       IN  /\ traffic_targets' = r.traffic_targets
           /\ loop_statics' = r.statics
           /\ loopCall' = [handed |-> r.handed,
                sendto |-> /\ r.handed # <<>>
                           /\ send_gdl90_message(udp_socket, broadcast_enabled)]
    /\ xplane' = [xplane EXCEPT !.elapsed = current_time, !.tcas = tcas]
    /\ UNCHANGED <<enable_traffic, broadcast_enabled, udp_socket>>
    /\ UNCHANGED nonTrafficVars

LegacyConfigure(broadcast, traffic_on, socket_ok, setsockopt_ok) ==
    /\ xplane.lifecycle = "enabled"
    /\ loop_statics.imgui_initialized
    /\ LET r == imgui_config_callback(broadcast, traffic_on, socket_ok, setsockopt_ok)
       IN  /\ broadcast_enabled' = r.broadcast_enabled
           /\ enable_traffic' = r.enable_traffic
           /\ udp_socket' = r.udp_socket
    /\ UNCHANGED <<traffic_targets, loop_statics, xplane, loopCall>>
    /\ UNCHANGED nonTrafficVars

NextTraffic ==
    \/ \E socket_ok, setsockopt_ok \in BOOLEAN : LegacyStart(socket_ok, setsockopt_ok)
    \/ LegacyEnable
    \/ LegacyDisable
    \/ LegacyStop
    \/ \E current_time \in ElapsedTimes, tcas \in TcasReadings,
          ui_ok \in BOOLEAN :
            LegacyFlightLoop(current_time, tcas, ui_ok)
    \/ \E broadcast, traffic_on, socket_ok, setsockopt_ok \in BOOLEAN :
            LegacyConfigure(broadcast, traffic_on, socket_ok, setsockopt_ok)

SpecTraffic == InitTraffic /\ [][NextTraffic]_vars

----------------------------------------------------------------------------
(* The receiving side, as the tests of the encoder decode a frame.         *)

(* Drop each 0x7D and XOR the byte after it with 0x20.  A 0x7D with no     *)
(* byte after it is malformed and shows as -1.                             *)
Unescape(bytes) ==
    LET loop[st \in Seq(Int) \X Nat] ==
            IF st[2] > Len(bytes) THEN st[1]
            ELSE IF bytes[st[2]] = 125
                THEN IF st[2] + 1 > Len(bytes)
                        THEN st[1] \o <<-1>>
                        ELSE loop[<<st[1] \o <<BitXor(bytes[st[2] + 1], 32)>>, st[2] + 2>>]
            ELSE loop[<<st[1] \o <<bytes[st[2]]>>, st[2] + 1>>]
    IN  loop[<<<<>>, 1>>]

(* UnescapeFrame: the unescaped bytes between the two flag bytes *)
UnescapeFrame(message) == Unescape(SubSeq(message, 2, Len(message) - 1))

(* ExtractPayload: the unescaped interior without its two trailing bytes *)
ExtractPayload(message) ==
    LET unescaped == UnescapeFrame(message)
    IN  SubSeq(unescaped, 1, Len(unescaped) - 2)

(* The two trailing bytes of the unescaped interior, low byte first *)
ExtractCrc(message) ==
    LET unescaped == UnescapeFrame(message)
    IN  unescaped[Len(unescaped) - 1] + 256 * unescaped[Len(unescaped)]

(* One MSB-first shift-left / conditional XOR 0x1021 step on 16 bits *)
crcShift(c) ==
    IF c >= 32768 THEN BitXor((c * 2) % 65536, 4129) ELSE (c * 2) % 65536

crcShift8(c) == crcShift(crcShift(crcShift(crcShift(crcShift(crcShift(crcShift(crcShift(c))))))))

(* The table generated from the polynomial: entry i from i << 8 *)
GeneratedTable == [i \in 1..256 |-> crcShift8((i - 1) * 256)]

(* ComputeCrc: the table-driven fold of the tests, over the generated     *)
(* table, with crc << 8 truncated to 16 bits before the XOR               *)
ComputeCrc(bytes) ==
    LET loop[st \in Nat \X Nat] ==
            IF st[2] > Len(bytes) THEN st[1]
            ELSE loop[<<BitXor(BitXor(GeneratedTable[(st[1] \div 256) + 1],
                                      (st[1] * 256) % 65536),
                               bytes[st[2]]),
                        st[2] + 1>>]
    IN  loop[<<0, 1>>]

(* The frames the state holds *)
Frames == {f \in {ownship, traffic, heartbeat} : f # <<>>}

PositionFrames == {f \in {ownship, traffic} : f # <<>>}

IsSpecial(byte) == byte = 125 \/ byte = 126

(* Payload byte 14 and the high nibble of byte 15 *)
HorizontalVelocityField(f) ==
    LET p == ExtractPayload(f) IN p[15] * 16 + p[16] \div 16

(* The low nibble of payload byte 12 *)
MiscField(f) ==
    LET p == ExtractPayload(f) IN p[13] % 16

(* Payload bytes 5..7 and 8..10 of a position frame, read big-endian *)
LatitudeField(f) ==
    LET p == ExtractPayload(f) IN p[6] * 65536 + p[7] * 256 + p[8]

LongitudeField(f) ==
    LET p == ExtractPayload(f) IN p[9] * 65536 + p[10] * 256 + p[11]

----------------------------------------------------------------------------
(* C1: every frame returned by createHeartbeat, createOwnshipReport or     *)
(* createTrafficReport begins and ends with 0x7E, no byte between the two  *)
(* flags is 0x7E, and every 0x7D between them is followed, still before    *)
(* the closing flag, by 0x5D or 0x5E.                                      *)
C1_FramingInvariant ==
    \A f \in Frames :
        /\ Len(f) >= 2
        /\ f[1] = 126
        /\ f[Len(f)] = 126
        /\ \A i \in 2..(Len(f) - 1) :
            /\ f[i] # 126
            /\ f[i] = 125 => (i + 1 <= Len(f) - 1 /\ f[i + 1] \in {93, 94})

(* An ownship report was framed whose CRC has a low byte of 0x7E or 0x7D,   *)
(* which the frame carries escaped.                                        *)
C1_Witness ==
    /\ ownship # <<>>
    /\ IsSpecial(calculateCRC(positionPayload(10, data, overflow)) % 256)
    /\ ownship[Len(ownship) - 3] = 125

(* C2: the unescaped interior of a frame is the payload followed by the    *)
(* CRC-16/CCITT of the payload alone, low byte first.                      *)
C2_CrcRoundTrip ==
    /\ ownship # <<>> =>
        ExtractPayload(ownship) = positionPayload(10, data, overflow)
    /\ traffic # <<>> =>
        ExtractPayload(traffic) = positionPayload(20, data, overflow)
    /\ heartbeat # <<>> =>
        ExtractPayload(heartbeat) =
            heartbeatPayload(hbArgs.gps_valid, hbArgs.utc_ok, hbArgs.timestamp)
    /\ \A f \in Frames :
        /\ Len(UnescapeFrame(f)) >= 3
        /\ ExtractCrc(f) = ComputeCrc(ExtractPayload(f))

(* A frame with escaped bytes whose two CRC bytes differ *)
C2_Witness ==
    /\ traffic # <<>>
    /\ Len(traffic) > Len(UnescapeFrame(traffic)) + 2
    /\ ExtractCrc(traffic) % 256 # ExtractCrc(traffic) \div 256

(* C3: unescaping what escapeMessage returns gives the input back; a 0x7E  *)
(* or 0x7D of the input becomes 0x7D, byte XOR 0x20 (0x5E or 0x5D) and     *)
(* every other byte one unchanged byte, in the order of the input.         *)
EscapedLen(bytes, n) == n + Cardinality({j \in 1..n : IsSpecial(bytes[j])})

C3_EscapeRoundTrip ==
    op = "escapeMessage" =>
        /\ Unescape(escaped) = raw
        /\ Len(escaped) = EscapedLen(raw, Len(raw))
        /\ \A i \in 1..Len(raw) :
            LET at == EscapedLen(raw, i - 1) + 1
            IN  IF raw[i] = 126 THEN escaped[at] = 125 /\ escaped[at + 1] = 94
                ELSE IF raw[i] = 125 THEN escaped[at] = 125 /\ escaped[at + 1] = 93
                ELSE escaped[at] = raw[i]

(* Both reserved bytes and an ordinary byte between them were escaped *)
C3_Witness ==
    /\ op = "escapeMessage"
    /\ raw = <<125, 0, 126>>
    /\ Len(escaped) = 5

(* C4: the table of the source is the table generated from polynomial      *)
(* 0x1021, and calculateCRC folds table[crc >> 8] XOR ((crc << 8) mod      *)
(* 2^16) XOR byte over the bytes from seed 0, with the generated table.    *)
C4_CrcTable ==
    /\ crc16_table_ = GeneratedTable
    /\ op = "calculateCRC" =>
        /\ crc = ComputeCrc(raw)
        /\ crc \in 0..65535
        /\ raw = <<>> => crc = 0

(* The CRC of a sequence of MaxRawLen bytes that is not zero *)
C4_Witness ==
    /\ op = "calculateCRC"
    /\ Len(raw) = MaxRawLen
    /\ crc > 255

----------------------------------------------------------------------------
(* Fields of a position report, read from the payload the frame carries.   *)
(* Payload byte k of the source is element k + 1.                          *)

AltitudeField(f) ==
    LET p == ExtractPayload(f) IN p[12] * 16 + (p[13] \div 16)

VerticalVelocityField(f) ==
    LET p == ExtractPayload(f) IN (p[16] % 16) * 256 + p[17]

(* C5 as stated: the two frames for one PositionData have the same bytes   *)
(* everywhere but at payload byte 0, which is the second byte of a frame.  *)
C5_FramesDifferOnlyInId ==
    (ownship # <<>> /\ traffic # <<>>) =>
        /\ ownship[2] = 10
        /\ traffic[2] = 20
        /\ Len(ownship) = Len(traffic)
        /\ \A i \in 1..Len(ownship) : i # 2 => ownship[i] = traffic[i]

(* C5, amended: the payloads of the two frames for one PositionData differ *)
(* in byte 0 only, 0x0A for ownship and 0x14 for traffic; the CRC bytes    *)
(* that follow the payload differ as well.                                 *)
C5_PayloadsDifferOnlyInId ==
    (ownship # <<>> /\ traffic # <<>>) =>
        LET po == ExtractPayload(ownship)
            pt == ExtractPayload(traffic)
        IN  /\ Len(po) = Len(pt)
            /\ po[1] = 10
            /\ pt[1] = 20
            /\ \A i \in 2..Len(po) : po[i] = pt[i]
            /\ ExtractCrc(ownship) # ExtractCrc(traffic)

(* Both reports were made for a PositionData whose frames need escaping *)
C5_Witness ==
    /\ ownship # <<>>
    /\ traffic # <<>>
    /\ data = EscapePosition

(* The fields the scenario of C6 lists *)
ScenarioListed(d) ==
    /\ d.latitude = 37524
    /\ d.longitude = -122063
    /\ d.altitude = 1000
    /\ d.h_velocity = 150
    /\ d.v_velocity = 0
    /\ d.track = 90
    /\ d.airborne
    /\ d.icao_address = 11259375
    /\ d.callsign = CallsignN12345
    /\ d.emitter_category = 1
    /\ d.alert_status = 0
    /\ d.address_type = 0

NoEscapeNeeded(f) ==
    \A i \in 1..Len(UnescapeFrame(f)) : ~IsSpecial(UnescapeFrame(f)[i])

(* C6 as stated: the payload of a position report is 28 bytes, the frame   *)
(* 32 bytes when nothing needs escaping, and the ownship frame of the      *)
(* scenario is 32 bytes, begins 7E 0A 00 AB CD EF and ends 7E.             *)
C6_ScenarioIs32Bytes ==
    /\ \A f \in PositionFrames :
        /\ Len(ExtractPayload(f)) = 28
        /\ NoEscapeNeeded(f) => Len(f) = 32
    /\ (ownship # <<>> /\ ScenarioListed(data)) =>
        /\ Len(ownship) = 32
        /\ SubSeq(ownship, 1, 6) = <<126, 10, 0, 171, 205, 239>>
        /\ ownship[Len(ownship)] = 126

(* C6, amended: the payload is 28 bytes, the frame is 32 bytes exactly     *)
(* when nothing needs escaping, and the ownship frame of the scenario      *)
(* begins 7E 0A 00 AB CD EF and ends 7E; it is 32 bytes when the fields    *)
(* the scenario leaves open (track_type, nic, nacp, emergency_code) are 0. *)
C6_PayloadIs28Bytes ==
    /\ \A f \in PositionFrames :
        /\ Len(ExtractPayload(f)) = 28
        /\ NoEscapeNeeded(f) <=> Len(f) = 32
    /\ (ownship # <<>> /\ ScenarioListed(data)) =>
        /\ SubSeq(ownship, 1, 6) = <<126, 10, 0, 171, 205, 239>>
        /\ ownship[Len(ownship)] = 126
        /\ (data.track_type = 0 /\ data.nic = 0 /\ data.nacp = 0
                /\ data.emergency_code = 0) => Len(ownship) = 32

(* The ownship report of the scenario, its open fields zero *)
C6_Witness ==
    /\ ownship # <<>>
    /\ data = ScenarioPosition
    /\ Len(ownship) = 32

(* C7: payload bytes 19..26 are the first 8 characters of the callsign,    *)
(* unchanged and in order, followed by spaces up to 8 bytes.               *)
C7_CallsignField ==
    \A f \in PositionFrames :
        LET p == ExtractPayload(f)
        IN  /\ Len(p) >= 27
            /\ \A i \in 1..8 :
                p[19 + i] = IF i <= Len(data.callsign) THEN data.callsign[i] ELSE 32

(* A report for a callsign of more than 8 characters *)
C7_Witness ==
    /\ traffic # <<>>
    /\ Len(data.callsign) > 8

(* C8: the altitude code is 0 up to -1000 ft, 0xFFE from 101350 ft on and  *)
(* (a + 1000) / 25 in between, for every 32-bit altitude; never 0xFFF.     *)
ClaimedAltitudeCode(a) ==
    IF a <= -1000 THEN 0
    ELSE IF a >= 101350 THEN 4094
    ELSE (a + 1000) \div 25

C8_AltitudeCode ==
    /\ op = "encodeAltitude" => (code = ClaimedAltitudeCode(arg) /\ code # 4095)
    /\ \A f \in PositionFrames : AltitudeField(f) = ClaimedAltitudeCode(data.altitude)

(* C9: for v_velocity -32768 the vertical-velocity field of the report is  *)
(* 0x800, whatever the other fields are.                                   *)
C9_VerticalVelocitySentinel ==
    /\ \A f \in PositionFrames :
        data.v_velocity = INT16_MIN => VerticalVelocityField(f) = 2048
    /\ (op = "encodeVerticalVelocity" /\ arg = INT16_MIN) => code = 2048

(* A report with the sentinel among fields that are not those of the test *)
C9_Witness ==
    /\ ownship # <<>>
    /\ traffic # <<>>
    /\ data.v_velocity = INT16_MIN
    /\ data.h_velocity # 65535

(* C10: a vertical velocity other than -32768 encodes to 0x1FE above       *)
(* 32576, to 0xE02 below -32576 and otherwise to the 12-bit two's          *)
(* complement of v / 64 rounded toward zero.                               *)
TowardZero64(v) ==
    CHOOSE q \in -512..512 :
        IF v >= 0 THEN q >= 0 /\ 64 * q <= v /\ v < 64 * (q + 1)
                  ELSE q <= 0 /\ 64 * q >= v /\ v > 64 * (q - 1)

ClaimedVerticalVelocityCode(v) ==
    IF v > 32576 THEN 510
    ELSE IF v < -32576 THEN 3586
    ELSE IF TowardZero64(v) < 0 THEN 4096 + TowardZero64(v) ELSE TowardZero64(v)

C10_VerticalVelocityCode ==
    /\ (op = "encodeVerticalVelocity" /\ arg # INT16_MIN) =>
        /\ code = ClaimedVerticalVelocityCode(arg)
        /\ arg \in -63..63 => code = 0
        /\ arg = 32576 => code = 509
        /\ arg = -32576 => code = 3587
    /\ \A f \in PositionFrames :
        data.v_velocity # INT16_MIN =>
            VerticalVelocityField(f) = ClaimedVerticalVelocityCode(data.v_velocity)

(* A negative velocity of less than one step was encoded *)
C10_Witness ==
    /\ op = "encodeVerticalVelocity"
    /\ arg = -63
    /\ code = 0

----------------------------------------------------------------------------
(* C11: in the heartbeat payload, for every clock value, byte 0 is 0x00;   *)
(* byte 1 is exactly 0x81 when gps_valid and 0x01 when not; bit 0 of byte  *)
(* 2 equals utc_ok and bits 1..6 of byte 2 are clear.                      *)
C11_HeartbeatFlags ==
    heartbeat # <<>> =>
        LET p == ExtractPayload(heartbeat)
        IN  /\ p[1] = 0
            /\ p[2] = (IF hbArgs.gps_valid THEN 129 ELSE 1)
            /\ p[3] % 2 = (IF hbArgs.utc_ok THEN 1 ELSE 0)
            /\ (p[3] % 128) \div 2 = 0

(* Both flags set while bit 16 of the timestamp is set as well *)
C11_Witness ==
    /\ heartbeat # <<>>
    /\ hbArgs.gps_valid
    /\ hbArgs.utc_ok
    /\ hbArgs.timestamp >= 65536
    /\ ExtractPayload(heartbeat)[2] = 129
    /\ ExtractPayload(heartbeat)[3] = 129

----------------------------------------------------------------------------
(* C12: the heartbeat payload is exactly 7 bytes; with t = hour*3600 +     *)
(* min*60 + sec of the clock reading, byte 3 + 256 * byte 4 + 65536 *      *)
(* (bit 7 of byte 2) = t, t is at most 86399, and bytes 5 and 6 are 0x00.  *)
C12_HeartbeatTimestamp ==
    heartbeat # <<>> =>
        LET p == ExtractPayload(heartbeat)
            t == hbArgs.tm.tm_hour * 3600 + hbArgs.tm.tm_min * 60 + hbArgs.tm.tm_sec
            reconstructed == p[4] + 256 * p[5] + 65536 * (p[3] \div 128)
        IN  /\ Len(p) = 7
            /\ reconstructed = t
            /\ reconstructed <= 86399
            /\ p[6] = 0
            /\ p[7] = 0

(* The last second of the day: bit 16 set, 86399 = 65536 + 0x517F *)
C12_Witness ==
    /\ heartbeat # <<>>
    /\ hbArgs.tm = [tm_hour |-> 23, tm_min |-> 59, tm_sec |-> 59]
    /\ ExtractPayload(heartbeat)[3] \div 128 = 1
    /\ ExtractPayload(heartbeat)[4] = 127
    /\ ExtractPayload(heartbeat)[5] = 81

----------------------------------------------------------------------------
(* C13: every latitude above +90 encodes to the same 24-bit value as +90   *)
(* and every latitude below -90 as -90; every longitude above +180 encodes *)
(* as +180 and every longitude below -180 as -180; in a position report    *)
(* an out-of-range coordinate is encoded as the limit, never rejected.     *)
C13_ClampIdempotent ==
    /\ op = "encodeLatitude" =>
            /\ arg > 90000 => code = encodeLatitude(90000)
            /\ arg < -90000 => code = encodeLatitude(-90000)
    /\ op = "encodeLongitude" =>
            /\ arg > 180000 => code = encodeLongitude(180000)
            /\ arg < -180000 => code = encodeLongitude(-180000)
    /\ \A f \in PositionFrames :
            /\ Len(ExtractPayload(f)) = 28
            /\ data.latitude > 90000 => LatitudeField(f) = encodeLatitude(90000)
            /\ data.latitude < -90000 => LatitudeField(f) = encodeLatitude(-90000)
            /\ data.longitude > 180000 => LongitudeField(f) = encodeLongitude(180000)
            /\ data.longitude < -180000 => LongitudeField(f) = encodeLongitude(-180000)

(* A report with latitude 100 and longitude -200, as the clamping test has *)
C13_Witness ==
    /\ ownship # <<>>
    /\ data.latitude = 100000
    /\ data.longitude = -200000
    /\ LatitudeField(ownship) = 4194304
    /\ LongitudeField(ownship) = 8388608

----------------------------------------------------------------------------
(* C14: the coordinate code is the 24-bit two's complement of degrees *    *)
(* 2^23/180 truncated toward zero after clamping and saturated to          *)
(* -2^23 .. 2^23-1 (so +180 gives 0x7FFFFF), the three payload bytes are   *)
(* that code big-endian, and a non-negative coordinate never has bit 23    *)
(* set.                                                                    *)
ClaimedCoordinateCode(mdeg, limit) ==
    LET clamped == Max(-limit, Min(limit, mdeg))
        value == Min(ScaleCoordinate(clamped), 8388607)
    IN  IF value < 0 THEN 16777216 + value ELSE value

C14_CoordinateCode ==
    /\ op = "encodeLatitude" =>
            /\ code = ClaimedCoordinateCode(arg, 90000)
            /\ arg >= 0 => code < 8388608
    /\ op = "encodeLongitude" =>
            /\ code = ClaimedCoordinateCode(arg, 180000)
            /\ arg >= 0 => code < 8388608
    /\ \A f \in PositionFrames :
            /\ LatitudeField(f) = ClaimedCoordinateCode(data.latitude, 90000)
            /\ LongitudeField(f) = ClaimedCoordinateCode(data.longitude, 180000)
            /\ data.longitude >= 0 => LongitudeField(f) < 8388608

----------------------------------------------------------------------------
(* C15: in every position report the 12-bit horizontal velocity field      *)
(* (byte 14 and the high nibble of byte 15) is min(h_velocity, 0xFFE),     *)
(* never 0xFFF, and the low nibble of byte 15 with byte 16 holds the       *)
(* vertical velocity code, whatever the other field is.                    *)
C15_HorizontalVelocityField ==
    \A f \in PositionFrames :
        /\ HorizontalVelocityField(f) = Min(data.h_velocity, 4094)
        /\ HorizontalVelocityField(f) # 4095
        /\ VerticalVelocityField(f) =
                (IF data.v_velocity = INT16_MIN THEN VVELOCITY_INVALID
                 ELSE ClaimedVerticalVelocityCode(data.v_velocity))

(* 65535 kt next to a descent of 32577 ft/min: bytes FF EE 02 *)
C15_Witness ==
    /\ ownship # <<>>
    /\ data.h_velocity = 65535
    /\ data.v_velocity = -32577
    /\ HorizontalVelocityField(ownship) = 4094
    /\ ExtractPayload(ownship)[16] = 238
    /\ VerticalVelocityField(ownship) = 3586

----------------------------------------------------------------------------
(* C16: in every position report byte 1 is ((alert_status mod 16) << 4) |  *)
(* (address_type mod 16), bytes 2..4 are the low 24 bits of icao_address   *)
(* most significant first, byte 13 is ((nic mod 16) << 4) | (nacp mod 16), *)
(* byte 18 is the emitter category and byte 27 is (emergency_code mod 16)  *)
(* << 4 with a zero low nibble.                                            *)
C16_DirectFields ==
    \A f \in PositionFrames :
        LET p == ExtractPayload(f)
        IN  /\ p[2] = (data.alert_status % 16) * 16 + (data.address_type % 16)
            /\ p[3] = (data.icao_address \div 65536) % 256
            /\ p[4] = (data.icao_address \div 256) % 256
            /\ p[5] = data.icao_address % 256
            /\ p[14] = (data.nic % 16) * 16 + (data.nacp % 16)
            /\ p[19] = data.emitter_category
            /\ p[28] = (data.emergency_code % 16) * 16
            /\ p[28] % 16 = 0

(* An address with bits above bit 23: 0x1ABCDEF is sent as AB CD EF *)
C16_Witness ==
    /\ traffic # <<>>
    /\ data.icao_address = 28036591
    /\ SubSeq(ExtractPayload(traffic), 3, 5) = <<171, 205, 239>>
    /\ ExtractPayload(traffic)[14] = 152

----------------------------------------------------------------------------
(* C17: in every position report byte 11 holds bits 11..4 of the altitude  *)
(* code, the high nibble of byte 12 its bits 3..0, and the low nibble of   *)
(* byte 12 has bit 3 = airborne, bit 2 = 0 and bits 1..0 = track_type.     *)
C17_AltitudeMiscPacking ==
    \A f \in PositionFrames :
        LET p == ExtractPayload(f)
            alt == encodeAltitude(data.altitude, overflow)
        IN  /\ p[12] = alt \div 16
            /\ p[13] \div 16 = alt % 16
            /\ MiscField(f) \div 8 = (IF data.airborne THEN 1 ELSE 0)
            /\ (MiscField(f) \div 4) % 2 = 0
            /\ MiscField(f) % 4 = data.track_type

(* -975 ft is code 1; airborne with a true heading: bytes 00 1B *)
C17_Witness ==
    /\ ownship # <<>>
    /\ data.altitude = -975
    /\ data.airborne
    /\ data.track_type = 3
    /\ ExtractPayload(ownship)[12] = 0
    /\ ExtractPayload(ownship)[13] = 27

----------------------------------------------------------------------------
(* C18: for every track the code, and byte 17 of a position report, is     *)
(* ((track mod 360) * 256) div 360, which lies in 0..255 as it is, and     *)
(* tracks equal modulo 360 have the same code.                             *)
ClaimedTrackCode(track) == ((track % 360) * 256) \div 360

C18_TrackCode ==
    /\ op = "encodeTrack" =>
            /\ code = ClaimedTrackCode(arg)
            /\ code \in 0..255
            /\ code = encodeTrack(arg % 360)
    /\ \A f \in PositionFrames :
            ExtractPayload(f)[18] = ClaimedTrackCode(data.track)

(* The largest uint16_t: 65535 mod 360 = 15, code 10 *)
C18_Witness ==
    /\ op = "encodeTrack"
    /\ arg = 65535
    /\ code = 10

----------------------------------------------------------------------------
(* C19: for every PositionData, createOwnshipReport and createTrafficReport *)
(* return a well-formed frame (flags, 28-byte payload, matching CRC), and  *)
(* that frame is the one obtained by clamping and truncating the inputs:   *)
(* the frame of the PositionData with every field brought into its range.  *)
ClampedPosition(d) ==
    [d EXCEPT !.latitude = Max(-90000, Min(90000, d.latitude)),
              !.longitude = Max(-180000, Min(180000, d.longitude)),
              !.altitude = Max(-1000, Min(101350, d.altitude)),
              !.h_velocity = Min(d.h_velocity, 4094),
              !.track = d.track % 360,
              !.nic = d.nic % 16,
              !.nacp = d.nacp % 16,
              !.icao_address = d.icao_address % 16777216,
              !.callsign = SubSeq(d.callsign, 1, Min(Len(d.callsign), 8)),
              !.address_type = d.address_type % 16,
              !.alert_status = d.alert_status % 16,
              !.emergency_code = d.emergency_code % 16]

C19_NoErrorOutcome ==
    \A f \in PositionFrames :
        LET p == ExtractPayload(f)
        IN  /\ Head(f) = 126
            /\ f[Len(f)] = 126
            /\ Len(p) = 28
            /\ ExtractCrc(f) = ComputeCrc(p)
            /\ f = createPositionReport(p[1], ClampedPosition(data), overflow)

----------------------------------------------------------------------------
(* C20: threads call createHeartbeat, createOwnshipReport and              *)
(* createTrafficReport at the same time without synchronization, and under *)
(* every interleaving each call returns exactly the frame it would return  *)
(* if it ran alone: for a heartbeat, the frame for the time of day of the  *)
(* clock value the call itself read.                                       *)
AloneFrame(t) ==
    IF call[t].kind = "heartbeat"
        THEN createHeartbeat(call[t].gps_valid, call[t].utc_ok,
                             getUTCTime(gmtime(now[t])))
    ELSE IF call[t].kind = "ownship"
        THEN createOwnshipReport(call[t].data, overflow)
    ELSE createTrafficReport(call[t].data, overflow)

C20_ConcurrentCallsRunAsAlone ==
    \A t \in Threads : pc[t] = "done" => result[t] = AloneFrame(t)

----------------------------------------------------------------------------
(* C21: ConfigManager::load is all-or-nothing.  A load of a file that      *)
(* cannot be opened, or that holds a line that fails to parse (a           *)
(* target_port of 0 or above 65535, a number that is no number, a rate     *)
(* that is not positive), returns false; a load that returns false leaves  *)
(* every field of the Config as it was before the call, the fields that    *)
(* earlier lines of the file assigned included, and leaves an error that   *)
(* is not empty; a load that returns true leaves the empty error.          *)
C21_LoadAllOrNothing ==
    cfgCall.op \in {"first load", "load"} =>
        /\ ~disk.exists => ~cfgCall.ret
        /\ (disk \in FileInputs /\ \E i \in 1..Len(disk.lines) : disk.lines[i] \in BadLines)
               => ~cfgCall.ret
        /\ ~cfgCall.ret => (config_ = cfgCall.before /\ last_error_ # "")
        /\ cfgCall.ret => last_error_ = ""

(* A load failed on the second line after the first line had parsed, on a  *)
(* manager that held the test's configuration                              *)
C21_Witness ==
    /\ cfgCall.op = "load"
    /\ ~cfgCall.ret
    /\ disk.exists
    /\ Len(disk.lines) = 2
    /\ disk.lines[1] \in GoodLines
    /\ disk.lines[2] \in BadLines
    /\ cfgCall.before = TestConfig
    /\ config_ = TestConfig

----------------------------------------------------------------------------
(* The ranges in which the fields of a Config are documented to lie *)
InDocumentedRanges(c) ==
    /\ c.target_port \in 1..65535
    /\ c.icao_address \in 0..16777215
    /\ Len(c.callsign) <= 8
    /\ c.heartbeat_rate > 0
    /\ c.position_rate > 0
    /\ c.emitter_category \in 0..255
    /\ c.nic \in 0..255
    /\ c.nacp \in 0..255

(* C22: save followed by load is a round trip.  For every configuration    *)
(* whose fields lie in their documented ranges, the load by a new manager  *)
(* of the file that save wrote returns true and yields a Config equal to   *)
(* the saved one in every field.                                           *)
C22_SaveLoadRoundTrip ==
    \A c \in ConfigInputs :
        (InDocumentedRanges(c) /\ cfgCall.op = "first load" /\ disk = File(SaveText(c)))
            => (cfgCall.ret /\ config_ = c)

----------------------------------------------------------------------------
(* C23: send on a broadcaster that is not initialized (never initialized,  *)
(* initialize failed, or closed) or whose target IP is no valid IPv4       *)
(* address returns -1, never a count of bytes, leaves an error that is     *)
(* not empty, and transmits no datagram.                                   *)
C23_SendFailsUnlessReady ==
    (/\ udpCall.op = "send"
     /\ (~udpCall.before.initialized_ \/ udpCall.before.target_ip_ \in InvalidIps))
        => (/\ udpCall.ret = -1
            /\ bcast.last_error_ # ""
            /\ udpCall.sent = <<>>)

(* A send on a broadcaster with a valid address that is not initialized    *)
(* after the process had opened a socket, when sendto would have taken the *)
(* datagram                                                                *)
C23_Witness ==
    /\ udpCall.op = "send"
    /\ ~udpCall.before.initialized_
    /\ udpCall.before.target_ip_ \in ValidIps
    /\ udpCall.system[1]
    /\ Len(kernel) >= 1
    /\ bcast.alive
    /\ udpCall.ret = -1

----------------------------------------------------------------------------
(* The broadcaster holds a socket of the process that is open *)
HoldsOpenSocket ==
    /\ bcast.socket_ \in 1..Len(kernel)
    /\ kernel[bcast.socket_].open

NoOpenSocket == \A fd \in 1..Len(kernel) : ~kernel[fd].open

(* C24: over any sequence of initialize, send, close and destructor in     *)
(* which socket creation and setsockopt may fail: isInitialized() is true  *)
(* exactly when the object holds an open socket; initialize on an          *)
(* initialized object returns true and opens no second socket; a failed    *)
(* initialize leaves the object uninitialized with no socket open;         *)
(* initialize succeeds whenever the system calls do, after a close as      *)
(* well; close leaves isInitialized() false and is a no-op on an object    *)
(* that is not initialized; every socket that was opened is closed exactly *)
(* once, the destructor closing the one still held.                        *)
C24_SocketLifecycle ==
    /\ bcast.initialized_ <=> HoldsOpenSocket
    /\ \A fd \in 1..Len(kernel) :
           /\ kernel[fd].closes = IF kernel[fd].open THEN 0 ELSE 1
           /\ kernel[fd].open => (bcast.alive /\ bcast.socket_ = fd)
    /\ (udpCall.op = "initialize" /\ udpCall.before.initialized_)
           => (udpCall.ret = 1 /\ kernel = udpCall.kernelBefore /\ bcast = udpCall.before)
    /\ (udpCall.op = "initialize" /\ udpCall.ret = 0)
           => (~bcast.initialized_ /\ NoOpenSocket)
    /\ (udpCall.op = "initialize" /\ udpCall.system = <<TRUE, TRUE>>)
           => (udpCall.ret = 1 /\ bcast.initialized_)
    /\ udpCall.op = "close" => ~bcast.initialized_
    /\ (udpCall.op = "close" /\ ~udpCall.before.initialized_)
           => (bcast = udpCall.before /\ kernel = udpCall.kernelBefore)
    /\ udpCall.op = "destroy" => NoOpenSocket

(* initialize succeeded on an object that had been initialized and closed: *)
(* the first socket is closed, the second is open and held                 *)
C24_Witness ==
    /\ udpCall.op = "initialize"
    /\ udpCall.ret = 1
    /\ ~udpCall.before.initialized_
    /\ Len(kernel) = 2
    /\ kernel[1].closes = 1
    /\ kernel[2].open
    /\ bcast.socket_ = 2

----------------------------------------------------------------------------
(* C25: with the heartbeat rate of the configuration, in every flight loop  *)
(* callback after a heartbeat of the same run of the plugin: a heartbeat    *)
(* is handed to the broadcaster only when at least 1/heartbeat_rate         *)
(* seconds of sim time have passed since the previous one, a callback that  *)
(* runs enabled at such a time hands one over, and only one, and the sim    *)
(* time between two heartbeats is at most 1/heartbeat_rate seconds plus     *)
(* the time since the callback before.                                      *)
HeartbeatPeriodPassed(t, prev) ==
    (t - prev) * config_.heartbeat_rate >= TicksPerSecond * RateUnitsPerOne

C25_HeartbeatStep ==
    (pluginCall'.event = "flight loop" /\ pluginLog.prevHeartbeat # -1) =>
        /\ HasHeartbeat(pluginCall'.handed) =>
               HeartbeatPeriodPassed(pluginCall'.sim_time, pluginLog.prevHeartbeat)
        /\ ( /\ g_state.enabled
             /\ g_state.initialized
             /\ HeartbeatPeriodPassed(pluginCall'.sim_time, pluginLog.prevHeartbeat) )
               => HasHeartbeat(pluginCall'.handed)
        /\ Cardinality({i \in 1..Len(pluginCall'.handed) :
                           IsHeartbeat(pluginCall'.handed[i])}) <= 1
        /\ HasHeartbeat(pluginCall'.handed) =>
               (pluginCall'.sim_time - pluginLog.prevHeartbeat) * config_.heartbeat_rate
                 <= TicksPerSecond * RateUnitsPerOne
                    + (pluginCall'.sim_time - pluginLog.prevCallback) * config_.heartbeat_rate

C25_HeartbeatPace == [][C25_HeartbeatStep]_vars

(* With 0.5 heartbeats a second, a heartbeat left 2 seconds after the one   *)
(* before it, in a callback half a second after a callback without one.     *)
C25_Witness ==
    /\ pluginCall.event = "flight loop"
    /\ HasHeartbeat(pluginCall.handed)
    /\ config_.heartbeat_rate * 2 = RateUnitsPerOne
    /\ pluginLog.gap = 2 * TicksPerSecond
    /\ pluginCall.sent # <<>>
    /\ g_state.last_heartbeat = pluginCall.sim_time

----------------------------------------------------------------------------
(* C26: a flight loop callback hands a message to the broadcaster only      *)
(* when the plugin is initialized and enabled, and never between            *)
(* XPluginDisable and the next XPluginEnable that succeeds; XPluginEnable   *)
(* of a plugin that is not initialized returns 0 and leaves it disabled.    *)
C26_SendStep ==
    /\ (pluginCall'.event = "flight loop" /\ pluginCall'.handed # <<>>) =>
           /\ g_state.initialized
           /\ g_state.enabled
           /\ ~pluginLog.disabled
    /\ (pluginCall'.event = "flight loop" /\ pluginCall'.handed = <<>>) =>
           pluginCall'.sent = <<>>
    /\ (pluginCall'.event = "enable" /\ ~g_state.initialized) =>
           /\ pluginCall'.ret = 0
           /\ ~g_state'.enabled

C26_OnlyWhenEnabled == [][C26_SendStep]_vars

(* The callback stayed registered over an XPluginStart that failed, and    *)
(* X-Plane called it: nothing was handed over.                             *)
C26_Witness ==
    /\ pluginCall.event = "flight loop"
    /\ registered
    /\ ~g_state.initialized
    /\ g_state.objects
    /\ pluginCall.handed = <<>>

----------------------------------------------------------------------------
(* C27: a click on Apply or Save whose ApplyFieldsToConfig returns false,   *)
(* and a Reload Config whose ReloadConfigFromDisk returns false, leave the  *)
(* configuration of the manager and the broadcaster as they were; and they  *)
(* return false for an empty IP, a port outside 1..65535, a number that     *)
(* does not parse, a rate that is not positive, a boolean that is none, a   *)
(* new broadcaster that does not initialize, and a file that does not load. *)
UnloadableFiles ==
    {NoFile, File(<<<<"t", "a", "r", "g", "e", "t", "_", "p", "o", "r", "t", " ", "=", " ",
        "5", "0", "0", "0", " ", "#", " ", "b", "r", "o", "a", "d", "c", "a", "s", "t", " ",
        "p", "o", "r", "t">>, <<"n", "i", "c", " ", "=", " ", "x">>>>)}

C27_SettingsStep ==
    /\ (pluginCall'.event \in {"apply", "save", "reload"} /\ pluginCall'.ret = 0) =>
           /\ config_' = config_
           /\ bcast' = bcast
    /\ (pluginCall'.event \in {"apply", "save"} /\ pluginCall'.edit \in InvalidEdits) =>
           pluginCall'.ret = 0
    /\ ( /\ pluginCall'.event \in {"apply", "save", "reload"}
         /\ pluginCall'.system # <<TRUE, TRUE>> )
           => pluginCall'.ret = 0
    /\ (pluginCall'.event = "reload" /\ disk \in UnloadableFiles) => pluginCall'.ret = 0

C27_ApplyAllOrNothing == [][C27_SettingsStep]_vars

(* Reload Config found a new target in the file, and setsockopt() failed    *)
(* for the new broadcaster: the configuration is the one of before.         *)
C27_Witness ==
    /\ pluginCall.event = "reload"
    /\ pluginCall.ret = 0
    /\ pluginCall.system = <<TRUE, FALSE>>
    /\ disk = File(<<<<"t", "a", "r", "g", "e", "t", "_", "i", "p", " ", "=", " ", "1", "9",
        "2", ".", "1", "6", "8", ".", "1", ".", "5", "5">>>>)
    /\ config_.target_ip = DefaultConfig.target_ip
    /\ bcast.target_ip_ = DefaultConfig.target_ip
    /\ bcast.initialized_

----------------------------------------------------------------------------
(* C28: once XPluginStart has succeeded, and after every click on Apply and *)
(* Save and every Reload Config, the broadcaster of the plugin is           *)
(* initialized, holds an open socket, and has the target IP and the target  *)
(* port of the configuration of the manager.                                *)
C28_BroadcasterFollowsConfig ==
    g_state.initialized =>
        /\ bcast.alive
        /\ bcast.initialized_
        /\ bcast.target_ip_ = config_.target_ip
        /\ bcast.target_port_ = config_.target_port
        /\ bcast.socket_ \in 1..Len(kernel)
        /\ kernel[bcast.socket_].open

(* The port was changed in the window and the IP then reloaded from the    *)
(* file: the third broadcaster of the session has both.                    *)
C28_Witness ==
    /\ pluginCall.event = "reload"
    /\ pluginCall.ret = 1
    /\ config_.target_ip = <<"1", "9", "2", ".", "1", "6", "8", ".", "1", ".", "5", "5">>
    /\ config_.target_port = 4001
    /\ bcast.target_ip_ = <<"1", "9", "2", ".", "1", "6", "8", ".", "1", ".", "5", "5">>
    /\ bcast.target_port_ = 4001
    /\ bcast.socket_ = 3

----------------------------------------------------------------------------
(* The 12 bits of a vertical velocity code read as a two's-complement number *)
Signed12(c) == IF c >= 2048 THEN c - 4096 ELSE c

(* Every signed 16-bit vertical velocity but the sentinel *)
VerticalVelocities == (INT16_MIN + 1)..32767

(* C29: for every signed 16-bit vertical velocity other than the sentinel *)
(* -32768 the 12-bit code, read as a signed two's-complement number, lies *)
(* in -510..510 and does not decrease as the input grows, the saturation  *)
(* thresholds at +/-32576 included, so it is never the no-data code       *)
(* 0x800; 0x800 is the code of the sentinel only.                         *)
C29_VerticalVelocityMonotone ==
    op = "encodeVerticalVelocity" =>
        /\ arg # INT16_MIN =>
            /\ Signed12(code) \in -510..510
            /\ code # VVELOCITY_INVALID
            /\ \A v2 \in VerticalVelocityInputs \ {INT16_MIN} :
                /\ arg <= v2 => Signed12(code) <= Signed12(encodeVerticalVelocity(v2))
                /\ v2 <= arg => Signed12(encodeVerticalVelocity(v2)) <= Signed12(code)
        /\ arg = 0 =>
            \A v \in VerticalVelocities :
                /\ Signed12(encodeVerticalVelocity(v)) \in -510..510
                /\ v < 32767 => Signed12(encodeVerticalVelocity(v))
                                    <= Signed12(encodeVerticalVelocity(v + 1))
        /\ arg = INT16_MIN => code = VVELOCITY_INVALID
        /\ code = VVELOCITY_INVALID => arg = INT16_MIN

(* The first velocity below the lower saturation threshold was encoded: *)
(* one step below the code of the threshold itself                      *)
C29_Witness ==
    /\ op = "encodeVerticalVelocity"
    /\ arg = -32577
    /\ Signed12(code) = -510
    /\ Signed12(encodeVerticalVelocity(-32576)) = -509

----------------------------------------------------------------------------
(* A call of flight_loop_callback of the legacy plugin: the plugin is      *)
(* enabled before and after, and its switches and socket are as they were  *)
LegacyLoopStep ==
    /\ xplane.lifecycle = "enabled"
    /\ xplane'.lifecycle = "enabled"
    /\ UNCHANGED <<enable_traffic, broadcast_enabled, udp_socket>>

(* The target's speed, track and vertical speed all read 0 *)
ReadsNoActivity(r) == r.speed = 0 /\ r.track = 0 /\ r.vs = 0

(* The target is read, and its latitude or longitude reads with magnitude  *)
(* above 0.00001 degrees or its altitude with magnitude above 1.0 m        *)
ReadsUpdated(r) ==
    /\ ~ReadsNoActivity(r)
    /\ \/ r.lat > 10 \/ r.lat < -10
       \/ r.lon > 10 \/ r.lon < -10
       \/ r.alt > 1 \/ r.alt < -1

(* A traffic report of the target was handed on in the call *)
TrafficReported(handed, plane_id) ==
    \E k \in DOMAIN handed : handed[k] = <<"traffic", plane_id>>

(* C30: in the flight loop with traffic enabled, a traffic report is sent  *)
(* only for targets whose active flag is true.  A target whose speed,      *)
(* track and vertical speed all read 0 becomes inactive at once and is     *)
(* read no further.  Any other target counts as updated when its latitude  *)
(* or longitude reads with magnitude above 0.00001 or its altitude with    *)
(* magnitude above 1.0, and then becomes active and not extrapolated; not  *)
(* updated, it is flagged extrapolated once more than 2.0 s have passed    *)
(* since its last data update and becomes inactive once more than 30.0 s   *)
(* have passed since its last update.  An inactive target gets no traffic  *)
(* report until a later cycle updates it again.                            *)
C30_TrafficStep ==
    LegacyLoopStep =>
        \A i \in DOMAIN traffic_targets :
            LET before == traffic_targets[i]
                after == traffic_targets'[i]
                r == xplane'.tcas[i]
                current_time == xplane'.elapsed
                reported == TrafficReported(loopCall'.handed, before.plane_id)
            IN  /\ reported => enable_traffic /\ after.active
                /\ enable_traffic =>
                    /\ ReadsNoActivity(r) => ~after.active
                    /\ ReadsUpdated(r) => after.active /\ ~after.is_extrapolated
                    /\ (~ReadsNoActivity(r) /\ ~ReadsUpdated(r)) =>
                        /\ after.is_extrapolated
                            <=> (current_time - before.last_data_update > 2)
                        /\ (current_time - before.last_update > 30) => ~after.active
                        /\ (current_time - before.last_update <= 30) =>
                            (after.active <=> before.active)
                    /\ (~before.active /\ ~ReadsUpdated(r)) => ~after.active /\ ~reported

====
